---- MODULE Spec2Model ----
(***************************************************************************)
(* A model of the job scraper of gd_scrapper.py: the link collector and    *)
(* the scrape limit of run(), the batch loop of run(), process_batch(),    *)
(* process_single_job() with its retry loop, and extract_job_data().       *)
(*                                                                         *)
(* Text is modelled as a sequence of one-character strings, so that        *)
(* prefix tests, substring tests and pattern matching are computed on the  *)
(* characters as the code computes them.  A character outside ASCII is     *)
(* written as a named atom ("ndash" stands for U+2013).                    *)
(*                                                                         *)
(* The renderer (playwright) is the environment.  Its calls launch,        *)
(* new_context, the set-up calls, the search and browser.close() may fail; *)
(* for a job, every call on its page (new_page, goto, the two              *)
(* wait_for_timeout, content, close) may fail when the link is one of the  *)
(* site's flaky links, any number of times.  asyncio.sleep always returns. *)
(*                                                                         *)
(* The alphabet of the texts is ASCII, the currency signs, the en dash and *)
(* the white space of Unicode: a character that TLA+ cannot write is an    *)
(* atom, named ("vt", "nbsp", "euro") or by its code point ("U+2003").     *)
(***************************************************************************)
EXTENDS Integers, Sequences, FiniteSets, TLC

VARIABLES
    pc,               \* position of run(): "launch", "new_context", "setup",
                      \* "search", "collect", "loop", "gather", "sleep",
                      \* "except" (at browser.close() of line 215),
                      \* "returned", "raised"
    browser,          \* "none", "open", "closed"
    page,             \* the rendered results page: its anchors, in document order
    detail,           \* the detail page the site serves for a job: its text nodes
    total_found,      \* run(): total_found
    links,            \* run(): links, after truncation and prefixing
    batch_start,      \* run(): the loop variable batch_start
    tasks,            \* process_batch(): the jobs of the batch in flight
    history,          \* the jobs of the batches already joined, in launch order
    launched,         \* the batch_links of every process_batch call so far
    job_listings,     \* run(): job_listings
    successful_jobs,  \* run(): successful_jobs
    progress,         \* the "Progress:" lines printed so far
    returned,         \* the list run() returned (meaningful when pc = "returned")
    overtaken,        \* whether a job has closed its page while a job launched
                      \* before it in the same batch was still running
    sleeps,           \* the asyncio.sleep(1.0) calls of run() that have returned
    place,            \* the place given to run() and filter_jobs_by_location()
    filtered,         \* what each call of filter_jobs_by_location() returned
    runner_pc,        \* position of runner.py: "compile", "SyntaxError"
    jobs_csv,         \* runner.py: jobs, the rows of jobs.csv
    country_csv,      \* runner.py: locations, the rows of country.csv
    attempted,        \* runner.py: the pairs whose turn of the loops has begun
    executed          \* runner.py: the pairs for which parse() ran the pipeline

vars == <<pc, browser, page, detail, total_found, links, batch_start, tasks, history,
          launched, job_listings, successful_jobs, progress, returned, overtaken,
          sleeps, place, filtered, runner_pc, jobs_csv, country_csv, attempted, executed>>

\* the variables of filter_jobs_by_location() and of runner.py
filterVars == <<place, filtered>>
driverVars == <<runner_pc, jobs_csv, country_csv, attempted, executed>>

(***************************************************************************)
(* Bounds of the model.                                                    *)
(***************************************************************************)
\* the longest results page of Spec (anchors)
MaxLinks == 6
\* the longest results page of SpecPlan (anchors)
MaxFound == 64
\* the most words of a job description of SpecExtract
MaxWords == 3
\* the longest record list of SpecFilter
MaxRecords == 2
\* the most calls of the filter in a run of SpecFilter
MaxPasses == 2
\* the most rows of jobs.csv and of country.csv in SpecRunner
MaxRows == 2
\* the most words of a salary text of SpecFields
MaxSalaryWords == 2
\* the most text nodes of a title page of SpecFields
MaxNodes == 3
\* the most anchors of a results page of SpecCollect
MaxAnchors == 3

(***************************************************************************)
(* Program constants.                                                      *)
(***************************************************************************)
batch_size == 5
max_retries == 3

(***************************************************************************)
(* Text helpers.                                                           *)
(***************************************************************************)
Min(a, b) == IF a <= b THEN a ELSE b

\* Python: s.startswith(p)
StartsWith(s, p) == Len(p) <= Len(s) /\ SubSeq(s, 1, Len(p)) = p

\* Python: sub in s
Contains(s, sub) ==
    \E i \in 0..(Len(s) - Len(sub)) : SubSeq(s, i + 1, i + Len(sub)) = sub

\* one decimal digit as a character
DigitChar(d) == <<"0", "1", "2", "3", "4", "5", "6", "7", "8", "9">>[d + 1]

\* str(n) for a natural number
RECURSIVE Str(_)
Str(n) == IF n < 10 THEN <<DigitChar(n)>> ELSE Str(n \div 10) \o <<DigitChar(n % 10)>>

S_http == <<"h", "t", "t", "p">>
base_url == <<"h", "t", "t", "p", "s", ":", "/", "/", "w", "w", "w", ".", "g", "l", "a", "s", "s", "d", "o", "o", "r", ".", "c", "o", "m">>
S_job_listing == <<"/", "j", "o", "b", "-", "l", "i", "s", "t", "i", "n", "g", "/">>
S_gd_job_listing == <<"g", "l", "a", "s", "s", "d", "o", "o", "r", ".", "c", "o", "m", "/", "j", "o", "b", "-", "l", "i", "s", "t", "i", "n", "g">>
S_JobCard == <<"J", "o", "b", "C", "a", "r", "d">>
S_JobCard_jobTitle == <<"J", "o", "b", "C", "a", "r", "d", "_", "j", "o", "b", "T", "i", "t", "l", "e", "_", "_", "r", "b", "j", "T", "E">>
S_jobTitle == <<"j", "o", "b", "T", "i", "t", "l", "e">>
S_NA == <<"N", "/", "A">>

(***************************************************************************)
(* Characters and the pieces of Python's re the patterns of                *)
(* extract_job_data use.  Positions are 1-based; At(s, i) past the end is  *)
(* the empty string, which is no character.                                *)
(***************************************************************************)
UpperChars == <<"A", "B", "C", "D", "E", "F", "G", "H", "I", "J", "K", "L", "M", "N", "O", "P", "Q", "R", "S", "T", "U", "V", "W", "X", "Y", "Z">>
LowerChars == <<"a", "b", "c", "d", "e", "f", "g", "h", "i", "j", "k", "l", "m", "n", "o", "p", "q", "r", "s", "t", "u", "v", "w", "x", "y", "z">>

\* str.lower() of one character; also the case folding of re.IGNORECASE
Lower(c) ==
    IF \E k \in 1..Len(UpperChars) : UpperChars[k] = c
    THEN LowerChars[CHOOSE k \in 1..Len(UpperChars) : UpperChars[k] = c]
    ELSE c

\* \d, and str.isdigit() of one character
IsDigit(c) == c \in {"0", "1", "2", "3", "4", "5", "6", "7", "8", "9"}

\* \s of a str pattern, and the characters str.strip() removes: the 29
\* characters with str.isspace() ("vt" stands for \x0b, "nbsp" for \xa0 and
\* "U+XXXX" for the character of that code point)
IsSpace(c) ==
    c \in {" ", "\t", "\n", "vt", "\f", "\r",
           "U+001C", "U+001D", "U+001E", "U+001F", "U+0085", "nbsp", "U+1680",
           "U+2000", "U+2001", "U+2002", "U+2003", "U+2004", "U+2005", "U+2006",
           "U+2007", "U+2008", "U+2009", "U+200A", "U+2028", "U+2029", "U+202F",
           "U+205F", "U+3000"}

At(s, i) == IF 1 <= i /\ i <= Len(s) THEN s[i] ELSE ""

\* the position after the longest run of digits that starts at i (\d* is greedy)
RECURSIVE DigitsEnd(_, _)
DigitsEnd(s, i) == IF IsDigit(At(s, i)) THEN DigitsEnd(s, i + 1) ELSE i

\* the position after the longest run of white space that starts at i (\s*)
RECURSIVE SpacesEnd(_, _)
SpacesEnd(s, i) == IF IsSpace(At(s, i)) THEN SpacesEnd(s, i + 1) ELSE i

\* a literal of the pattern (given in lower case) at position i, ignoring case
LitAt(s, i, lit) ==
    /\ i >= 1
    /\ i + Len(lit) - 1 <= Len(s)
    /\ \A k \in 1..Len(lit) : Lower(s[i + k - 1]) = lit[k]

\* an optional character c? at position i: the position after it
OptChar(s, i, c) == IF Lower(At(s, i)) = c THEN i + 1 ELSE i

\* g.isdigit() of a string: not empty and digits only
IsDigitStr(g) == Len(g) > 0 /\ \A k \in 1..Len(g) : IsDigit(g[k])

\* " ".join(parts)
RECURSIVE JoinSpace(_)
JoinSpace(parts) ==
    IF Len(parts) = 0 THEN <<>>
    ELSE IF Len(parts) = 1 THEN parts[1]
    ELSE parts[1] \o <<" ">> \o JoinSpace(Tail(parts))

\* a group of a match: None when the group did not take part
NoneGroup == [some |-> FALSE, s |-> <<>>]
Group(s, a, b) == [some |-> TRUE, s |-> SubSeq(s, a, b - 1)]
NoMatch == [ok |-> FALSE, end |-> 0, groups |-> <<>>]

S_year == <<"y", "e", "a", "r">>
S_experience == <<"e", "x", "p", "e", "r", "i", "e", "n", "c", "e">>
S_minimum == <<"m", "i", "n", "i", "m", "u", "m">>
S_at == <<"a", "t">>
S_least == <<"l", "e", "a", "s", "t">>
S_of == <<"o", "f">>
S_plus_years == <<"+", " ", "y", "e", "a", "r", "s">>
S_years == <<" ", "y", "e", "a", "r", "s">>

(***************************************************************************)
(* exp_patterns[0..4], each matched at a given start position as           *)
(* re matches it: every quantifier is greedy, and in these patterns giving *)
(* back a character never helps (the next item cannot match the character  *)
(* given back), so the greedy attempt is the only one.                     *)
(***************************************************************************)
\* (\d+)\+?\s*years?\s*of?\s*experience
MatchExp1(s, i) ==
    IF ~IsDigit(At(s, i)) THEN NoMatch
    ELSE LET j1 == DigitsEnd(s, i)
             j2 == IF At(s, j1) = "+" THEN j1 + 1 ELSE j1
             j3 == SpacesEnd(s, j2)
             j4 == j3 + Len(S_year)
             j5 == OptChar(s, j4, "s")
             j6 == SpacesEnd(s, j5)
             j7 == j6 + 1
             j8 == OptChar(s, j7, "f")
             j9 == SpacesEnd(s, j8)
         IN  IF /\ LitAt(s, j3, S_year)
                /\ Lower(At(s, j6)) = "o"
                /\ LitAt(s, j9, S_experience)
             THEN [ok |-> TRUE, end |-> j9 + Len(S_experience),
                   groups |-> <<Group(s, i, j1)>>]
             ELSE NoMatch

\* minimum\s+of?\s*(\d+)\s*years?
MatchExp2(s, i) ==
    IF ~LitAt(s, i, S_minimum) THEN NoMatch
    ELSE LET j1 == i + Len(S_minimum)
             j2 == SpacesEnd(s, j1)
             j3 == j2 + 1
             j4 == OptChar(s, j3, "f")
             j5 == SpacesEnd(s, j4)
             j6 == DigitsEnd(s, j5)
             j7 == SpacesEnd(s, j6)
             j8 == j7 + Len(S_year)
         IN  IF /\ j2 > j1
                /\ Lower(At(s, j2)) = "o"
                /\ j6 > j5
                /\ LitAt(s, j7, S_year)
             THEN [ok |-> TRUE, end |-> OptChar(s, j8, "s"),
                   groups |-> <<Group(s, j5, j6)>>]
             ELSE NoMatch

\* at\s+least\s+(\d+)\s*years?
MatchExp3(s, i) ==
    IF ~LitAt(s, i, S_at) THEN NoMatch
    ELSE LET j1 == i + Len(S_at)
             j2 == SpacesEnd(s, j1)
             j3 == j2 + Len(S_least)
             j4 == SpacesEnd(s, j3)
             j5 == DigitsEnd(s, j4)
             j6 == SpacesEnd(s, j5)
             j7 == j6 + Len(S_year)
         IN  IF /\ j2 > j1
                /\ LitAt(s, j2, S_least)
                /\ j4 > j3
                /\ j5 > j4
                /\ LitAt(s, j6, S_year)
             THEN [ok |-> TRUE, end |-> OptChar(s, j7, "s"),
                   groups |-> <<Group(s, j4, j5)>>]
             ELSE NoMatch

\* the tail \s*years?\s*(of\s*)?experience of patterns 4 and 5, from position j:
\* the match with the groups before it, and the group (of\s*)? after them
ExperienceTail(s, j, before) ==
    LET j1 == SpacesEnd(s, j)
        j2 == j1 + Len(S_year)
        j3 == OptChar(s, j2, "s")
        j4 == SpacesEnd(s, j3)
        hasOf == LitAt(s, j4, S_of)
        j5 == IF hasOf THEN SpacesEnd(s, j4 + Len(S_of)) ELSE j4
    IN  IF LitAt(s, j1, S_year) /\ LitAt(s, j5, S_experience)
        THEN [ok |-> TRUE, end |-> j5 + Len(S_experience),
              groups |-> before \o <<IF hasOf THEN Group(s, j4, j5) ELSE NoneGroup>>]
        ELSE NoMatch

\* (\d+)[-ndash](\d+)\s*years?\s*(of\s*)?experience
MatchExp4(s, i) ==
    IF ~IsDigit(At(s, i)) THEN NoMatch
    ELSE LET j1 == DigitsEnd(s, i)
             j2 == j1 + 1
             j3 == DigitsEnd(s, j2)
         IN  IF At(s, j1) \in {"-", "ndash"} /\ j3 > j2
             THEN ExperienceTail(s, j3, <<Group(s, i, j1), Group(s, j2, j3)>>)
             ELSE NoMatch

\* (\d+)\s*years?\s*(of\s*)?experience
MatchExp5(s, i) ==
    IF ~IsDigit(At(s, i)) THEN NoMatch
    ELSE LET j1 == DigitsEnd(s, i)
         IN  ExperienceTail(s, j1, <<Group(s, i, j1)>>)

\* the number of patterns in exp_patterns, and pattern p matched at position i
NumExpPatterns == 5
MatchExp(p, s, i) ==
    CASE p = 1 -> MatchExp1(s, i)
      [] p = 2 -> MatchExp2(s, i)
      [] p = 3 -> MatchExp3(s, i)
      [] p = 4 -> MatchExp4(s, i)
      [] OTHER -> MatchExp5(s, i)

\* re.search from position `from` on: the match at the leftmost start
SearchExp(p, s, from) ==
    LET at == {i \in from..Len(s) : MatchExp(p, s, i).ok}
    IN  IF at = {} THEN NoMatch
        ELSE MatchExp(p, s, CHOOSE i \in at : \A j \in at : i <= j)

\* the inner loop "for match in matches" over re.finditer(pattern, text), which
\* yields the matches left to right without overlap: the value the loop leaves
\* in years_of_experience, "N/A" when no match sets it
RECURSIVE ExpOfMatches(_, _, _)
ExpOfMatches(p, s, from) ==
    LET m == SearchExp(p, s, from)
        groups == m.groups
    IN  IF ~m.ok THEN S_NA
        ELSE IF /\ Len(groups) = 2
                /\ \A k \in 1..2 : groups[k].some /\ IsDigitStr(groups[k].s)
             THEN groups[1].s \o <<"-">> \o groups[2].s \o S_years
        ELSE IF Len(groups) >= 1 /\ groups[1].some /\ IsDigitStr(groups[1].s)
             THEN groups[1].s \o S_plus_years
        ELSE ExpOfMatches(p, s, m.end)

\* the outer loop "for pattern in exp_patterns", from pattern p on
RECURSIVE ExpOfPatterns(_, _)
ExpOfPatterns(p, s) ==
    IF p > NumExpPatterns THEN S_NA
    ELSE LET r == ExpOfMatches(p, s, 1)
         IN  IF r # S_NA THEN r ELSE ExpOfPatterns(p + 1, s)

\* the years of experience of the joined requirements text
YearsOfExperience(page_text_str) == ExpOfPatterns(1, page_text_str)

(***************************************************************************)
(* More of Python's str.                                                   *)
(***************************************************************************)
\* str.upper() of one character
Upper(c) ==
    IF \E k \in 1..Len(LowerChars) : LowerChars[k] = c
    THEN UpperChars[CHOOSE k \in 1..Len(LowerChars) : LowerChars[k] = c]
    ELSE c

LowerStr(s) == [k \in 1..Len(s) |-> Lower(s[k])]
UpperStr(s) == [k \in 1..Len(s) |-> Upper(s[k])]

\* a cased character (a letter)
IsCased(c) == Lower(c) # c \/ Upper(c) # c

\* str.title(): a letter is upper case after a character that is no letter, and
\* lower case after a letter
Title(s) ==
    [k \in 1..Len(s) |->
        IF k > 1 /\ IsCased(s[k - 1]) THEN Lower(s[k]) ELSE Upper(s[k])]

\* str.strip()
RECURSIVE LStrip(_)
LStrip(s) == IF Len(s) > 0 /\ IsSpace(s[1]) THEN LStrip(Tail(s)) ELSE s
RECURSIVE RStrip(_)
RStrip(s) ==
    IF Len(s) > 0 /\ IsSpace(s[Len(s)]) THEN RStrip(SubSeq(s, 1, Len(s) - 1)) ELSE s
Strip(s) == RStrip(LStrip(s))

\* str.find(sub) + 1: the first position where sub occurs in s, 0 when nowhere
IndexOf(s, sub) ==
    LET at == {i \in 1..(Len(s) - Len(sub) + 1) : SubSeq(s, i, i + Len(sub) - 1) = sub}
    IN  IF at = {} THEN 0 ELSE CHOOSE i \in at : \A j \in at : i <= j

\* str.split(sep), sep not empty
RECURSIVE Split(_, _)
Split(s, sep) ==
    LET i == IndexOf(s, sep)
    IN  IF i = 0 THEN <<s>>
        ELSE <<SubSeq(s, 1, i - 1)>> \o Split(SubSeq(s, i + Len(sep), Len(s)), sep)

(***************************************************************************)
(* The parsed page.  lxml is a collaborator: a tree is given by its text   *)
(* nodes in document order, each with the elements above it (outermost     *)
(* first, its parent last), an element by its tag and its class attribute  *)
(* (empty when it has none).  Each XPath query of the code is the filter   *)
(* it denotes on the text nodes.                                           *)
(***************************************************************************)
NoElement == [tag |-> "", cls |-> <<>>]

\* the element k levels above a text node (1: its parent)
Up(n, k) == IF k <= Len(n.path) THEN n.path[Len(n.path) - k + 1] ELSE NoElement

\* tree.xpath('...text()'): the texts of the nodes a test selects
TextsWhere(tree, Test(_)) ==
    LET sel == SelectSeq(tree, Test)
    IN  [k \in 1..Len(sel) |-> sel[k].text]

S_Header == <<"J", "o", "b", "D", "e", "t", "a", "i", "l", "s", "_", "j", "o", "b", "D", "e", "t", "a", "i", "l", "s", "H", "e", "a", "d", "e", "r", "_", "_", "q", "K", "u", "v", "s">>
S_employerName == <<"e", "m", "p", "l", "o", "y", "e", "r", "N", "a", "m", "e">>
S_location == <<"l", "o", "c", "a", "t", "i", "o", "n">>
S_averageEstimate == <<"S", "a", "l", "a", "r", "y", "E", "s", "t", "i", "m", "a", "t", "e", "_", "a", "v", "e", "r", "a", "g", "e", "E", "s", "t", "i", "m", "a", "t", "e", "_", "_", "x", "F", "_", "7", "h">>
S_salary == <<"s", "a", "l", "a", "r", "y">>
S_SalaryEstimate == <<"S", "a", "l", "a", "r", "y", "E", "s", "t", "i", "m", "a", "t", "e">>
S_JobDetails_jobDescription == <<"J", "o", "b", "D", "e", "t", "a", "i", "l", "s", "_", "j", "o", "b", "D", "e", "s", "c", "r", "i", "p", "t", "i", "o", "n">>
S_jobDescription == <<"j", "o", "b", "D", "e", "s", "c", "r", "i", "p", "t", "i", "o", "n">>
S_JV == <<"-", "J", "V", "_">>
S_min_salary == <<"m", "i", "n", "i", "m", "u", "m", " ", "s", "a", "l", "a", "r", "y", " ", "i", "s", " ", "$">>
S_max_salary == <<"m", "a", "x", " ", "s", "a", "l", "a", "r", "y", " ", "i", "s", " ", "$">>
S_USD == <<"U", "S", "D">>
S_EUR == <<"E", "U", "R">>
S_GBP == <<"G", "B", "P">>
S_JPY == <<"J", "P", "Y">>
S_INR == <<"I", "N", "R">>

\* an element above the node is <tag> with a class containing sub
UnderTagWithClass(n, tag, sub) ==
    \E k \in 1..Len(n.path) : n.path[k].tag = tag /\ Contains(n.path[k].cls, sub)

\* //div[@class="JobDetails_jobDetailsHeader__qKuvs"]/h1/text()
IsRole1(n) == Up(n, 1).tag = "h1" /\ Up(n, 2).tag = "div" /\ Up(n, 2).cls = S_Header
\* //h1[contains(@class, "jobTitle")]/text()
IsRole2(n) == Up(n, 1).tag = "h1" /\ Contains(Up(n, 1).cls, S_jobTitle)
\* //h1/text()
IsRole3(n) == Up(n, 1).tag = "h1"

\* //div[@class="JobDetails_jobDetailsHeader__qKuvs"]/a/div/span/text()
IsCompany1(n) ==
    /\ Up(n, 1).tag = "span" /\ Up(n, 2).tag = "div" /\ Up(n, 3).tag = "a"
    /\ Up(n, 4).tag = "div" /\ Up(n, 4).cls = S_Header
\* //span[contains(@class, "employerName")]/text()
IsCompany2(n) == Up(n, 1).tag = "span" /\ Contains(Up(n, 1).cls, S_employerName)
\* //a[contains(@class, "employerName")]/text()
IsCompany3(n) == Up(n, 1).tag = "a" /\ Contains(Up(n, 1).cls, S_employerName)
\* //a[contains(@class, "employerName")]//text()
IsCompany4(n) == UnderTagWithClass(n, "a", S_employerName)

\* //div[@class="JobDetails_jobDetailsHeader__qKuvs"]/div/text()
IsLocation1(n) == Up(n, 1).tag = "div" /\ Up(n, 2).tag = "div" /\ Up(n, 2).cls = S_Header
\* //div[contains(@class, "location")]/text()
IsLocation2(n) == Up(n, 1).tag = "div" /\ Contains(Up(n, 1).cls, S_location)

\* //div[@class="SalaryEstimate_averageEstimate__xF_7h"]/text()
IsSalary1(n) == Up(n, 1).tag = "div" /\ Up(n, 1).cls = S_averageEstimate
\* //span[contains(@class, "salary")]/text()
IsSalary2(n) == Up(n, 1).tag = "span" /\ Contains(Up(n, 1).cls, S_salary)
\* //div[contains(@class, "SalaryEstimate")]//text()
IsSalary3(n) == UnderTagWithClass(n, "div", S_SalaryEstimate)

\* //div[contains(@class, "JobDetails_jobDescription")]//text()
IsRequirements1(n) == UnderTagWithClass(n, "div", S_JobDetails_jobDescription)
\* //div[contains(@class, "jobDescription")]//text()
IsRequirements2(n) == UnderTagWithClass(n, "div", S_jobDescription)
\* //text()
IsText(n) == TRUE

\* "a = q1; if not a: a = q2": the first list that is not empty, else the last
OrElse(a, b) == IF Len(a) > 0 THEN a ELSE b

\* a chain without its last selector
RoleOf_TwoSelectors(tree) ==
    LET role_elements == OrElse(TextsWhere(tree, IsRole1), TextsWhere(tree, IsRole2))
    IN  IF Len(role_elements) > 0 THEN Strip(role_elements[1]) ELSE S_NA

(***************************************************************************)
(* extract_job_data, field by field.                                       *)
(***************************************************************************)
\* lines 329-334
RoleOf(tree) ==
    LET role_elements ==
            OrElse(TextsWhere(tree, IsRole1),
            OrElse(TextsWhere(tree, IsRole2), TextsWhere(tree, IsRole3)))
    IN  IF Len(role_elements) > 0 THEN Strip(role_elements[1]) ELSE S_NA

\* lines 346-367: the company name read off the link, as a list of 0 or 1 names
CompanyFromUrl(link) ==
    LET named(url_part) ==
            LET words == Split(url_part, <<"-">>)
            IN  IF Len(words) > 2
                THEN <<Title(words[Len(words) - 1] \o <<" ">> \o words[Len(words)])>>
                ELSE <<>>
    IN  IF Contains(link, S_job_listing) /\ Contains(link, S_JV)
        THEN named(Split(Split(link, S_job_listing)[2], S_JV)[1])
        ELSE IF Contains(link, S_job_listing)
        THEN named(Split(Split(link, S_job_listing)[2], <<"?">>)[1])
        ELSE <<>>

\* lines 337-368
CompanyOf(tree, link) ==
    LET company_elements ==
            OrElse(TextsWhere(tree, IsCompany1),
            OrElse(TextsWhere(tree, IsCompany2),
            OrElse(TextsWhere(tree, IsCompany3),
            OrElse(TextsWhere(tree, IsCompany4), CompanyFromUrl(link)))))
    IN  IF Len(company_elements) > 0 THEN Strip(company_elements[1]) ELSE S_NA

\* lines 371-374
LocationOf(tree) ==
    LET location_elements ==
            OrElse(TextsWhere(tree, IsLocation1), TextsWhere(tree, IsLocation2))
    IN  IF Len(location_elements) > 0 THEN Strip(location_elements[1]) ELSE S_NA

\* lines 377-387
CityOf(location) ==
    IF Contains(location, <<",">>) THEN Strip(Split(location, <<",">>)[1]) ELSE location
StateOf(location) ==
    IF Contains(location, <<",">>) THEN Strip(Split(location, <<",">>)[2]) ELSE S_NA

\* lines 390-398: re.search(r'(20\d{2})', text), "N/A" when there is no match
YearOf(tree) ==
    LET s == JoinSpace(TextsWhere(tree, IsText))
        at == {i \in 1..(Len(s) - 3) :
                  /\ s[i] = "2" /\ s[i + 1] = "0"
                  /\ IsDigit(s[i + 2]) /\ IsDigit(s[i + 3])}
    IN  IF at = {} THEN S_NA
        ELSE LET i == CHOOSE i \in at : \A j \in at : i <= j
             IN  SubSeq(s, i, i + 3)

\* re.search(lit + r'(\d+)K', text) for a literal lit, case kept: group 1 of the
\* leftmost match, as a list of 0 or 1 strings
AmountAfter(s, lit) ==
    LET ok(i) == /\ SubSeq(s, i, i + Len(lit) - 1) = lit
                 /\ DigitsEnd(s, i + Len(lit)) > i + Len(lit)
                 /\ At(s, DigitsEnd(s, i + Len(lit))) = "K"
        at == {i \in 1..(Len(s) - Len(lit) + 1) : ok(i)}
    IN  IF at = {} THEN <<>>
        ELSE LET i == CHOOSE i \in at : \A j \in at : i <= j
             IN  <<SubSeq(s, i + Len(lit), DigitsEnd(s, i + Len(lit)) - 1)>>

\* the location names removed from a salary text, in the order they are tried
location_patterns == <<
    <<"B", "o", "s", "t", "o", "n", ",", " ", "M", "A">>,
    <<"N", "e", "w", " ", "Y", "o", "r", "k", ",", " ", "N", "Y">>,
    <<"H", "y", "d", "e", "r", "a", "b", "a", "d", ",", " ", "I", "n", "d", "i", "a">>,
    <<"S", "a", "n", " ", "F", "r", "a", "n", "c", "i", "s", "c", "o", ",", " ", "C", "A">>>>

\* lines 421-427: the first 100 characters, cut at the first pattern they hold
RECURSIVE CleanSalary(_, _)
CleanSalary(salary, k) ==
    IF k > Len(location_patterns) THEN salary
    ELSE IF Contains(salary, location_patterns[k])
    THEN Strip(Split(salary, location_patterns[k])[1])
    ELSE CleanSalary(salary, k + 1)

\* lines 401-427
SalaryOf(tree) ==
    LET salary_elements ==
            OrElse(TextsWhere(tree, IsSalary1),
            OrElse(TextsWhere(tree, IsSalary2), TextsWhere(tree, IsSalary3)))
        salary_text == Strip(JoinSpace(salary_elements))
        min_match == AmountAfter(salary_text, S_min_salary)
        max_match == AmountAfter(salary_text, S_max_salary)
    IN  IF Len(salary_elements) = 0 THEN S_NA
        ELSE IF Len(min_match) > 0 /\ Len(max_match) > 0
        THEN <<"$">> \o min_match[1] \o <<"K", " ", "-", " ", "$">> \o max_match[1] \o <<"K">>
        ELSE IF Len(min_match) > 0
        THEN <<"$">> \o min_match[1] \o <<"K">>
        ELSE CleanSalary(SubSeq(salary_text, 1, Min(100, Len(salary_text))), 1)

\* the currency codes looked for in salary.upper(), in the order of lines 441-474
currency_codes == <<
    <<"C", "A", "D">>,
    <<"A", "U", "D">>,
    <<"C", "H", "F">>,
    <<"S", "E", "K">>,
    <<"N", "O", "K">>,
    <<"D", "K", "K">>,
    <<"P", "L", "N">>,
    <<"C", "Z", "K">>,
    <<"H", "U", "F">>,
    <<"R", "U", "B">>,
    <<"B", "R", "L">>,
    <<"M", "X", "N">>,
    <<"Z", "A", "R">>,
    <<"K", "R", "W">>,
    <<"S", "G", "D">>,
    <<"H", "K", "D">>,
    <<"N", "Z", "D">>>>

RECURSIVE CurrencyByCode(_, _)
CurrencyByCode(upper, k) ==
    IF k > Len(currency_codes) THEN S_USD
    ELSE IF Contains(upper, currency_codes[k]) THEN currency_codes[k]
    ELSE CurrencyByCode(upper, k + 1)

\* a detection that looks for the codes before the signs
CurrencyOf_CodesFirst(salary) ==
    IF Contains(UpperStr(salary), S_INR) THEN S_INR
    ELSE IF CurrencyByCode(UpperStr(salary), 1) # S_USD
         THEN CurrencyByCode(UpperStr(salary), 1)
    ELSE IF Contains(salary, <<"$">>) THEN S_USD
    ELSE IF Contains(salary, <<"euro">>) THEN S_EUR
    ELSE IF Contains(salary, <<"pound">>) THEN S_GBP
    ELSE IF Contains(salary, <<"yen">>) THEN S_JPY
    ELSE IF Contains(salary, <<"rupee">>) THEN S_INR
    ELSE S_USD

\* lines 430-474; "euro", "pound", "yen" and "rupee" are the currency signs
CurrencyOf(salary) ==
    IF Contains(salary, <<"$">>) THEN S_USD
    ELSE IF Contains(salary, <<"euro">>) THEN S_EUR
    ELSE IF Contains(salary, <<"pound">>) THEN S_GBP
    ELSE IF Contains(salary, <<"yen">>) THEN S_JPY
    ELSE IF Contains(salary, <<"rupee">>) \/ Contains(UpperStr(salary), S_INR) THEN S_INR
    ELSE CurrencyByCode(UpperStr(salary), 1)

\* a rule that prefers the composite of city and state to the location
RegionOf_Composite(location, city, state) ==
    IF city # S_NA /\ state # S_NA THEN city \o <<",", " ">> \o state
    ELSE IF location # S_NA THEN location
    ELSE S_NA

\* line 477
RegionOf(location, city, state) ==
    IF location # S_NA THEN location
    ELSE IF city # S_NA /\ state # S_NA THEN city \o <<",", " ">> \o state
    ELSE S_NA

\* lines 480-511
ExperienceOf(tree) ==
    LET requirements_text ==
            OrElse(TextsWhere(tree, IsRequirements1),
            OrElse(TextsWhere(tree, IsRequirements2), TextsWhere(tree, IsText)))
    IN  YearsOfExperience(JoinSpace(requirements_text))

extract_job_data(tree, link) ==
    LET location == LocationOf(tree)
        city == CityOf(location)
        state == StateOf(location)
        salary == SalaryOf(tree)
    IN  [Name |-> RoleOf(tree),
         Company |-> CompanyOf(tree, link),
         State |-> state,
         City |-> city,
         Salary |-> salary,
         Location |-> location,
         Currency |-> CurrencyOf(salary),
         Region |-> RegionOf(location, city, state),
         YearsOfExperience |-> ExperienceOf(tree),
         Year |-> YearOf(tree),
         Url |-> link]

(***************************************************************************)
(* The link collector of run(), lines 153-176.  The results page is given  *)
(* by its anchors in document order, an anchor by its href and its class.  *)
(***************************************************************************)
\* tree.xpath('//a[...]/@href'): the hrefs of the anchors a test selects
HrefsWhere(anchors, Test(_)) ==
    LET sel == SelectSeq(anchors, Test)
    IN  [k \in 1..Len(sel) |-> sel[k].href]

\* //a[contains(@href, "/job-listing/")]
IsLink1(a) == Contains(a.href, S_job_listing)
\* //a[contains(@class, "JobCard")]
IsLink2(a) == Contains(a.cls, S_JobCard)
\* //a[contains(@href, "glassdoor.com/job-listing")]
IsLink3(a) == Contains(a.href, S_gd_job_listing)
\* //a[@class="JobCard_jobTitle__rbjTE"]
IsLink4(a) == a.cls = S_JobCard_jobTitle
\* //a[contains(@class, "jobTitle")]
IsLink5(a) == Contains(a.cls, S_jobTitle)

\* a collector that gathers the links of every selector
DiscoveredLinks_AllStrategies(anchors) ==
    HrefsWhere(anchors, IsLink1) \o HrefsWhere(anchors, IsLink2)
        \o HrefsWhere(anchors, IsLink3) \o HrefsWhere(anchors, IsLink4)
        \o HrefsWhere(anchors, IsLink5)

\* lines 154-162: the links of the first selector that finds any
DiscoveredLinks(anchors) ==
    OrElse(HrefsWhere(anchors, IsLink1),
    OrElse(HrefsWhere(anchors, IsLink2),
    OrElse(HrefsWhere(anchors, IsLink3),
    OrElse(HrefsWhere(anchors, IsLink4), HrefsWhere(anchors, IsLink5)))))

\* a limit without the cap of 60
scrape_limit_Uncapped(found) == found

\* lines 171-174
scrape_limit(found) == IF found >= 20 THEN Min(60, found) ELSE found

\* line 176: link if link.startswith("http") else base_url + link
AbsoluteLink(link) == IF StartsWith(link, S_http) THEN link ELSE base_url \o link

\* line 176: links[:scrape_limit], each made absolute
TruncatedLinks(found, limit) ==
    [i \in 1..Min(limit, Len(found)) |-> AbsoluteLink(found[i])]

\* a slice one link too long, which overlaps the next
BatchLinks_Overlapping(all, start) ==
    SubSeq(all, start + 1, Min(start + batch_size + 1, Len(all)))

\* line 190: links[batch_start:batch_start + batch_size]
BatchLinks(all, start) == SubSeq(all, start + 1, Min(start + batch_size, Len(all)))

(***************************************************************************)
(* The detail pages of the site: what page.content() returns for a link,   *)
(* when it returns.  An empty document makes html.fromstring raise.        *)
(***************************************************************************)
S_empty == <<"e", "m", "p", "t", "y">>
S_flaky == <<"f", "l", "a", "k", "y">>

\* what page.content() returns for a link: the site's detail page, but for the
\* links named empty
DetailPage(link, nodes) == [empty |-> Contains(link, S_empty), nodes |-> nodes]

\* the detail page of the runs of Spec: a title and a location
DefaultDetail ==
    <<[text |-> <<"Q", "A">>, path |-> <<[tag |-> "h1", cls |-> <<>>]>>],
      [text |-> <<"Z", ",", "M", "A">>, path |-> <<[tag |-> "div", cls |-> S_location]>>]>>

\* the links for which the renderer may fail
Flaky(link) == Contains(link, S_flaky)

(***************************************************************************)
(* process_single_job, lines 294-323: one job, stopped at its awaits.      *)
(***************************************************************************)
\* the coroutine process_batch creates for a link (line 276), not yet run
NewJob(link, idx) ==
    [link |-> link, idx |-> idx, pc |-> "new_page", attempt |-> 0, gotos |-> 0,
     failed |-> 0, backoffs |-> 0, page |-> "none", result |-> "pending",
     data |-> <<>>]

\* lines 320-323: the except clause returns None
ReturnNone(job) == [job EXCEPT !.pc = "done", !.result = "None"]

\* lines 305-308: a failed attempt raises on the last attempt, else backs off
AfterFailedGoto(job) ==
    IF job.attempt = max_retries - 1
    THEN ReturnNone([job EXCEPT !.gotos = @ + 1, !.failed = @ + 1])
    ELSE [job EXCEPT !.gotos = @ + 1, !.failed = @ + 1, !.pc = "backoff"]

\* lines 305-308 after wait_for_timeout(500) raised: the same except clause,
\* and page.goto itself had returned
AfterFailedWait(job) ==
    IF job.attempt = max_retries - 1 THEN ReturnNone(job) ELSE [job EXCEPT !.pc = "backoff"]

\* lines 310-314: the content is parsed and the record extracted, or
\* html.fromstring raises
AfterContent(job, response) ==
    IF response.empty THEN ReturnNone(job)
    ELSE [job EXCEPT !.pc = "close",
                     !.data = <<extract_job_data(response.nodes, job.link)>>]

\* lines 316-318
AfterClose(job) == [job EXCEPT !.pc = "done", !.page = "closed", !.result = "dict"]

(***************************************************************************)
(* process_batch, lines 271-291.                                           *)
(***************************************************************************)
\* lines 275-277: one job per link, idx counted from start_idx
BatchJobs(batch_links, start_idx) ==
    [k \in 1..Len(batch_links) |-> NewJob(batch_links[k], start_idx + k - 1)]

IsDict(job) == job.result = "dict"

\* lines 280-291: gather returns the results in the order of the tasks; the
\* dicts among them are kept, in that order
valid_jobs(results) ==
    LET kept == SelectSeq(results, IsDict)
    IN  [k \in 1..Len(kept) |-> kept[k].data[1]]

\* a count of the jobs processed that is not held at the total
processed_Unclamped(start, total) == start + batch_size

\* line 195: processed = min(batch_start + batch_size, len(links))
processed(start, total) == Min(start + batch_size, total)

\* a gather that returns as soon as one of its tasks has settled
AllDone_AnySettled(jobs) == \E k \in 1..Len(jobs) : jobs[k].pc = "done"

\* a gather that does not wait for the last of its tasks
AllDone_ButLast(jobs) == \A k \in 1..(Len(jobs) - 1) : jobs[k].pc = "done"

AllDone(jobs) == \A k \in 1..Len(jobs) : jobs[k].pc = "done"

\* browser.close() closes every page still open
ClosePages(jobs) ==
    [k \in 1..Len(jobs) |->
        IF jobs[k].page = "open" THEN [jobs[k] EXCEPT !.page = "closed"] ELSE jobs[k]]

(***************************************************************************)
(* The results pages a run is given.                                       *)
(***************************************************************************)
\* the anchor of job card i: a relative href under /job-listing/; every fourth
\* card, from the second on, is a flaky link
JobAnchor(i) ==
    [href |-> S_job_listing \o (IF i % 4 = 2 THEN S_flaky ELSE <<"j">>) \o Str(i),
     cls |-> S_JobCard]

\* the same anchor with an absolute href
AbsoluteAnchor(i) == [href |-> base_url \o JobAnchor(i).href, cls |-> S_JobCard]

\* an anchor whose detail page is an empty document
EmptyAnchor == [href |-> S_job_listing \o S_empty, cls |-> S_JobCard]

\* a page of n different job cards
PlainPage(n) == [i \in 1..n |-> JobAnchor(i)]

\* a page on which the last of n cards points to the first job again
RepeatingPage(n) == [i \in 1..n |-> IF i = n THEN JobAnchor(1) ELSE JobAnchor(i)]

ResultsPages ==
    {PlainPage(n) : n \in (0..3) \cup {MaxLinks}}
        \cup {RepeatingPage(3),
              <<JobAnchor(1), AbsoluteAnchor(1)>>,
              <<JobAnchor(1), EmptyAnchor, JobAnchor(3)>>}

S_boston_ma == <<"b", "o", "s", "t", "o", "n", "-", "m", "a">>

\* runner.py is not running
DriverIdle ==
    /\ runner_pc = "idle"
    /\ jobs_csv = <<>>
    /\ country_csv = <<>>
    /\ attempted = <<>>
    /\ executed = <<>>

(***************************************************************************)
(* run(), lines 43-216.                                                    *)
(***************************************************************************)
Init ==
    /\ pc = "launch"
    /\ browser = "none"
    /\ page \in ResultsPages
    /\ detail = DefaultDetail
    /\ total_found = 0
    /\ links = <<>>
    /\ batch_start = 0
    /\ tasks = <<>>
    /\ history = <<>>
    /\ launched = <<>>
    /\ job_listings = <<>>
    /\ successful_jobs = 0
    /\ progress = <<>>
    /\ returned = <<>>
    /\ overtaken = FALSE
    /\ sleeps = 0
    /\ place = S_boston_ma
    /\ filtered = <<>>
    /\ DriverIdle

\* lines 50-60: playwright.chromium.launch returns
Launch ==
    /\ pc = "launch"
    /\ pc' = "new_context"
    /\ browser' = "open"
    /\ UNCHANGED <<page, detail, total_found, links, batch_start, tasks, history, launched,
                   job_listings, successful_jobs, progress, returned, overtaken>>
    /\ UNCHANGED <<sleeps, filterVars, driverVars>>

\* lines 50-60: launch raises; no handler encloses it, so run() raises
LaunchFails ==
    /\ pc = "launch"
    /\ pc' = "raised"
    /\ UNCHANGED <<browser, page, detail, total_found, links, batch_start, tasks, history,
                   launched, job_listings, successful_jobs, progress, returned, overtaken>>
    /\ UNCHANGED <<sleeps, filterVars, driverVars>>

\* lines 62-65: browser.new_context returns
NewContext ==
    /\ pc = "new_context"
    /\ pc' = "setup"
    /\ UNCHANGED <<browser, page, detail, total_found, links, batch_start, tasks, history,
                   launched, job_listings, successful_jobs, progress, returned, overtaken>>
    /\ UNCHANGED <<sleeps, filterVars, driverVars>>

\* lines 62-65: new_context raises, outside the try of line 85
NewContextFails ==
    /\ pc = "new_context"
    /\ pc' = "raised"
    /\ UNCHANGED <<browser, page, detail, total_found, links, batch_start, tasks, history,
                   launched, job_listings, successful_jobs, progress, returned, overtaken>>
    /\ UNCHANGED <<sleeps, filterVars, driverVars>>

\* lines 67-83: geolocation, permissions, headers and the search page are set up
Setup ==
    /\ pc = "setup"
    /\ pc' = "search"
    /\ UNCHANGED <<browser, page, detail, total_found, links, batch_start, tasks, history,
                   launched, job_listings, successful_jobs, progress, returned, overtaken>>
    /\ UNCHANGED <<sleeps, filterVars, driverVars>>

\* lines 67-83: one of these calls raises, outside the try of line 85
SetupFails ==
    /\ pc = "setup"
    /\ pc' = "raised"
    /\ UNCHANGED <<browser, page, detail, total_found, links, batch_start, tasks, history,
                   launched, job_listings, successful_jobs, progress, returned, overtaken>>
    /\ UNCHANGED <<sleeps, filterVars, driverVars>>

\* lines 85-147: the search form is filled and sent, the results are scrolled
Search ==
    /\ pc = "search"
    /\ pc' = "collect"
    /\ UNCHANGED <<browser, page, detail, total_found, links, batch_start, tasks, history,
                   launched, job_listings, successful_jobs, progress, returned, overtaken>>
    /\ UNCHANGED <<sleeps, filterVars, driverVars>>

\* lines 213-215: an exception inside the try is caught, the error is logged
\* and browser.close() is awaited
Abort ==
    /\ pc' = "except"
    /\ UNCHANGED <<browser, page, detail, total_found, links, batch_start, tasks, history,
                   launched, job_listings, successful_jobs, progress, returned, overtaken>>
    /\ UNCHANGED <<sleeps, filterVars, driverVars>>

\* lines 215-216: browser.close() returns in the except clause; run returns []
ReturnEmpty ==
    /\ pc = "except"
    /\ pc' = "returned"
    /\ browser' = "closed"
    /\ history' = ClosePages(history)
    /\ returned' = <<>>
    /\ UNCHANGED <<page, detail, total_found, links, batch_start, tasks, launched,
                   job_listings, successful_jobs, progress, overtaken>>
    /\ UNCHANGED <<sleeps, filterVars, driverVars>>

\* line 215: browser.close() raises in the except clause; no handler encloses
\* it, so run() raises
ReturnEmptyFails ==
    /\ pc = "except"
    /\ pc' = "raised"
    /\ UNCHANGED <<browser, page, detail, total_found, links, batch_start, tasks, history,
                   launched, job_listings, successful_jobs, progress, returned, overtaken>>
    /\ UNCHANGED <<sleeps, filterVars, driverVars>>

\* lines 85-147: a call of the search raises
SearchFails ==
    /\ pc = "search"
    /\ Abort

\* lines 150-187: the links are read off the results page, cut and made absolute
Collect ==
    /\ pc = "collect"
    /\ LET found == DiscoveredLinks(page)
       IN  /\ total_found' = Len(found)
           /\ links' = TruncatedLinks(found, scrape_limit(Len(found)))
    /\ pc' = "loop"
    /\ UNCHANGED <<browser, page, detail, batch_start, tasks, history, launched,
                   job_listings, successful_jobs, progress, returned, overtaken>>
    /\ UNCHANGED <<sleeps, filterVars, driverVars>>

\* line 150: page.content() raises
CollectFails ==
    /\ pc = "collect"
    /\ Abort

\* lines 189-191 and 273-280: the next batch is cut off links and its jobs are
\* created and handed to gather, in the order of the links
StartBatch ==
    /\ pc = "loop"
    /\ batch_start < Len(links)
    /\ LET batch_links == BatchLinks(links, batch_start)
       IN  /\ tasks' = BatchJobs(batch_links, batch_start + 1)
           /\ launched' = Append(launched, batch_links)
    /\ pc' = "gather"
    /\ UNCHANGED <<browser, page, detail, total_found, links, batch_start, history,
                   job_listings, successful_jobs, progress, returned, overtaken>>
    /\ UNCHANGED <<sleeps, filterVars, driverVars>>

\* what a step of job k leaves unchanged
JobFrame ==
    /\ UNCHANGED <<pc, browser, page, detail, total_found, links, batch_start, history,
                   launched, job_listings, successful_jobs, progress, returned>>
    /\ UNCHANGED <<sleeps, filterVars, driverVars>>

\* line 297: context.new_page() returns
NewPage(k) ==
    /\ tasks[k].pc = "new_page"
    /\ tasks' = [tasks EXCEPT ![k] = [@ EXCEPT !.pc = "goto", !.page = "open"]]
    /\ JobFrame
    /\ UNCHANGED overtaken

\* line 297: context.new_page() raises
NewPageFails(k) ==
    /\ tasks[k].pc = "new_page"
    /\ Flaky(tasks[k].link)
    /\ tasks' = [tasks EXCEPT ![k] = ReturnNone(@)]
    /\ JobFrame
    /\ UNCHANGED overtaken

\* line 302: page.goto returns; the job waits at line 303
Goto(k) ==
    /\ tasks[k].pc = "goto"
    /\ tasks' = [tasks EXCEPT ![k] = [@ EXCEPT !.gotos = @ + 1, !.pc = "wait500"]]
    /\ JobFrame
    /\ UNCHANGED overtaken

\* lines 303-304: page.wait_for_timeout(500) returns and the retry loop is left
WaitAfterGoto(k) ==
    /\ tasks[k].pc = "wait500"
    /\ tasks' = [tasks EXCEPT ![k] = [@ EXCEPT !.pc = "content"]]
    /\ JobFrame
    /\ UNCHANGED overtaken

\* lines 303-308: page.wait_for_timeout(500) raises, inside the try of line 301
WaitAfterGotoFails(k) ==
    /\ tasks[k].pc = "wait500"
    /\ Flaky(tasks[k].link)
    /\ tasks' = [tasks EXCEPT ![k] = AfterFailedWait(@)]
    /\ JobFrame
    /\ UNCHANGED overtaken

\* lines 302-308: page.goto raises
GotoFails(k) ==
    /\ tasks[k].pc = "goto"
    /\ Flaky(tasks[k].link)
    /\ tasks' = [tasks EXCEPT ![k] = AfterFailedGoto(@)]
    /\ JobFrame
    /\ UNCHANGED overtaken

\* line 308: page.wait_for_timeout(1000) raises inside the except clause of
\* line 305; the except clause of line 320 returns None
BackoffFails(k) ==
    /\ tasks[k].pc = "backoff"
    /\ Flaky(tasks[k].link)
    /\ tasks' = [tasks EXCEPT ![k] = ReturnNone(@)]
    /\ JobFrame
    /\ UNCHANGED overtaken

\* line 308 and the next turn of the loop of line 300: the wait before a retry
Backoff(k) ==
    /\ tasks[k].pc = "backoff"
    /\ tasks' = [tasks EXCEPT ![k] =
                    [@ EXCEPT !.backoffs = @ + 1, !.attempt = @ + 1, !.pc = "goto"]]
    /\ JobFrame
    /\ UNCHANGED overtaken

\* lines 310-314: page.content() returns
Content(k) ==
    /\ tasks[k].pc = "content"
    /\ tasks' = [tasks EXCEPT ![k] = AfterContent(@, DetailPage(@.link, detail))]
    /\ JobFrame
    /\ UNCHANGED overtaken

\* line 310: page.content() raises
ContentFails(k) ==
    /\ tasks[k].pc = "content"
    /\ Flaky(tasks[k].link)
    /\ tasks' = [tasks EXCEPT ![k] = ReturnNone(@)]
    /\ JobFrame
    /\ UNCHANGED overtaken

\* lines 316-318: page.close() returns and the job returns its record
Close(k) ==
    /\ tasks[k].pc = "close"
    /\ tasks' = [tasks EXCEPT ![k] = AfterClose(@)]
    /\ overtaken' = (overtaken \/ \E j \in 1..(k - 1) : tasks[j].pc # "done")
    /\ JobFrame

\* line 316: page.close() raises; the except clause of line 320 returns None
\* and the record extracted on line 314 is lost
CloseFails(k) ==
    /\ tasks[k].pc = "close"
    /\ Flaky(tasks[k].link)
    /\ tasks' = [tasks EXCEPT ![k] = ReturnNone(@)]
    /\ JobFrame
    /\ UNCHANGED overtaken

\* lines 280-291 and 192-200: every job of the batch has settled; gather
\* returns, the records are appended, the progress is printed and run sleeps
Join ==
    /\ pc = "gather"
    /\ AllDone(tasks)
    /\ LET batch_jobs == valid_jobs(tasks)
       IN  /\ job_listings' = job_listings \o batch_jobs
           /\ successful_jobs' = successful_jobs + Len(batch_jobs)
           /\ progress' = Append(progress,
                                 [processed |-> processed(batch_start, Len(links)),
                                  total |-> Len(links),
                                  successful |-> successful_jobs + Len(batch_jobs)])
    /\ history' = history \o tasks
    /\ tasks' = <<>>
    /\ pc' = "sleep"
    /\ UNCHANGED <<browser, page, detail, total_found, links, batch_start, launched,
                   returned, overtaken>>
    /\ UNCHANGED <<sleeps, filterVars, driverVars>>

\* line 200 and the next turn of the loop of line 189
Pace ==
    /\ pc = "sleep"
    /\ batch_start' = batch_start + batch_size
    /\ pc' = "loop"
    /\ UNCHANGED <<browser, page, detail, total_found, links, tasks, history, launched,
                   job_listings, successful_jobs, progress, returned, overtaken>>
    /\ sleeps' = sleeps + 1
    /\ UNCHANGED <<filterVars, driverVars>>

\* line 202: the loop is over and browser.close() raises, inside the try of
\* line 85
FinishFails ==
    /\ pc = "loop"
    /\ batch_start >= Len(links)
    /\ Abort

\* lines 202-211: the loop is over; the browser is closed and the list returned
Finish ==
    /\ pc = "loop"
    /\ batch_start >= Len(links)
    /\ browser' = "closed"
    /\ history' = ClosePages(history)
    /\ returned' = job_listings
    /\ pc' = "returned"
    /\ UNCHANGED <<page, detail, total_found, links, batch_start, tasks, launched,
                   job_listings, successful_jobs, progress, overtaken>>
    /\ UNCHANGED <<sleeps, filterVars, driverVars>>

Next ==
    \/ Launch
    \/ LaunchFails
    \/ NewContext
    \/ NewContextFails
    \/ Setup
    \/ SetupFails
    \/ Search
    \/ SearchFails
    \/ Collect
    \/ CollectFails
    \/ StartBatch
    \/ \E k \in 1..Len(tasks) : NewPage(k)
    \/ \E k \in 1..Len(tasks) : NewPageFails(k)
    \/ \E k \in 1..Len(tasks) : Goto(k)
    \/ \E k \in 1..Len(tasks) : GotoFails(k)
    \/ \E k \in 1..Len(tasks) : WaitAfterGoto(k)
    \/ \E k \in 1..Len(tasks) : WaitAfterGotoFails(k)
    \/ \E k \in 1..Len(tasks) : Backoff(k)
    \/ \E k \in 1..Len(tasks) : BackoffFails(k)
    \/ \E k \in 1..Len(tasks) : Content(k)
    \/ \E k \in 1..Len(tasks) : ContentFails(k)
    \/ \E k \in 1..Len(tasks) : Close(k)
    \/ \E k \in 1..Len(tasks) : CloseFails(k)
    \/ Join
    \/ Pace
    \/ Finish
    \/ FinishFails
    \/ ReturnEmpty
    \/ ReturnEmptyFails

Spec == Init /\ [][Next]_vars

\* the steps of run itself: a renderer call of run returns or raises, the
\* sleep of line 200 elapses, gather resumes once its jobs are done
RunStep ==
    \/ Launch \/ LaunchFails \/ NewContext \/ NewContextFails
    \/ Setup \/ SetupFails \/ Search \/ SearchFails \/ Collect \/ CollectFails
    \/ StartBatch \/ Join \/ Pace \/ Finish \/ FinishFails
    \/ ReturnEmpty \/ ReturnEmptyFails

\* the awaits of the jobs other than page.content(): each returns or raises
JobAwait ==
    \E k \in 1..Len(tasks) :
        \/ NewPage(k) \/ NewPageFails(k) \/ Goto(k) \/ GotoFails(k)
        \/ WaitAfterGoto(k) \/ WaitAfterGotoFails(k) \/ Backoff(k) \/ BackoffFails(k)
        \/ Close(k) \/ CloseFails(k)

\* a job leaves page.content(): the step Content(k) or ContentFails(k)
LeavesContent ==
    \E k \in 1..Len(tasks) :
        /\ tasks[k].pc = "content"
        /\ k <= Len(tasks')
        /\ tasks'[k].pc # "content"

\* every renderer call and every timer returns or fails, and the event loop
\* resumes a coroutine that can go on.  The last conjunct is weak fairness of
\* \E k : Content(k) \/ ContentFails(k), written out: that step is enabled
\* exactly when a job is at "content", and it is the only step that takes a
\* job away from there
Fairness ==
    /\ WF_vars(RunStep)
    /\ WF_vars(JobAwait)
    /\ \/ []<>(\A k \in 1..Len(tasks) : tasks[k].pc # "content")
       \/ []<><<LeavesContent>>_vars

SpecLive == Init /\ [][Next]_vars /\ Fairness

(***************************************************************************)
(* filter_jobs_by_location, lines 219-268.                                 *)
(***************************************************************************)
S_canada == <<"c", "a", "n", "a", "d", "a">>
S_united_states == <<"u", "n", "i", "t", "e", "d", " ", "s", "t", "a", "t", "e", "s">>
S_usa == <<"u", "s", "a">>
S_us == <<"u", "s">>
S_new_york == <<"n", "e", "w", "-", "y", "o", "r", "k">>
S_ny == <<"n", "y">>
S_boston == <<"b", "o", "s", "t", "o", "n">>
S_hyderabad == <<"h", "y", "d", "e", "r", "a", "b", "a", "d">>
S_mumbai == <<"m", "u", "m", "b", "a", "i">>
S_bangalore == <<"b", "a", "n", "g", "a", "l", "o", "r", "e">>

\* lines 229-231
canada_keywords == <<
    <<"c", "a", "n", "a", "d", "a">>,
    <<"t", "o", "r", "o", "n", "t", "o">>,
    <<"v", "a", "n", "c", "o", "u", "v", "e", "r">>,
    <<"m", "o", "n", "t", "r", "e", "a", "l">>,
    <<"c", "a", "l", "g", "a", "r", "y">>,
    <<"o", "t", "t", "a", "w", "a">>,
    <<"e", "d", "m", "o", "n", "t", "o", "n">>,
    <<"w", "i", "n", "n", "i", "p", "e", "g">>,
    <<"q", "u", "e", "b", "e", "c">>,
    <<"o", "n">>,
    <<"b", "c">>,
    <<"q", "c">>,
    <<"a", "b">>,
    <<"m", "b">>,
    <<"s", "k">>>>

\* lines 236-245
new_york_keywords == <<<<"n", "e", "w", " ", "y", "o", "r", "k">>, <<"n", "y", "c">>, <<"n", "e", "w", "-", "y", "o", "r", "k">>, <<"n", "y">>>>
boston_keywords == <<S_boston, <<"m", "a">>>>
bangalore_keywords == <<S_bangalore, <<"b", "e", "n", "g", "a", "l", "u", "r", "u">>>>

\* line 248: place_lower.split('-')[0] if '-' in place_lower else place_lower
city_name(place_lower) ==
    IF Contains(place_lower, <<"-">>) THEN Split(place_lower, <<"-">>)[1] ELSE place_lower

\* lines 232-233: the places that are not filtered at all
TooBroad(place_lower) ==
    \/ Contains(place_lower, S_united_states)
    \/ Contains(place_lower, S_usa)
    \/ Contains(place_lower, S_us)

\* lines 228-249: the keywords of a place, of the places that are filtered
expected_keywords(place_lower) ==
    IF Contains(place_lower, S_canada) THEN canada_keywords
    ELSE IF Contains(place_lower, S_new_york) \/ Contains(place_lower, S_ny)
         THEN new_york_keywords
    ELSE IF Contains(place_lower, S_boston) THEN boston_keywords
    ELSE IF Contains(place_lower, S_hyderabad) THEN <<S_hyderabad>>
    ELSE IF Contains(place_lower, S_mumbai) THEN <<S_mumbai>>
    ELSE IF Contains(place_lower, S_bangalore) THEN bangalore_keywords
    ELSE <<city_name(place_lower)>>

\* job.get(key, '')
Get(job, key) == IF key \in DOMAIN job THEN job[key] ELSE <<>>

\* a test that looks at the State field only
JobMatches_StateOnly(job, keywords) ==
    \E k \in 1..Len(keywords) : Contains(LowerStr(Get(job, "State")), keywords[k])

\* lines 253-263: some keyword is in the lower-cased Location, City, Region or State
JobMatches(job, keywords) ==
    \E k \in 1..Len(keywords) :
        \/ Contains(LowerStr(Get(job, "Location")), keywords[k])
        \/ Contains(LowerStr(Get(job, "City")), keywords[k])
        \/ Contains(LowerStr(Get(job, "Region")), keywords[k])
        \/ Contains(LowerStr(Get(job, "State")), keywords[k])

\* a filter that deletes from the list it is iterating over: the record after
\* a deleted one is skipped
RECURSIVE KeptWhileDeleting(_, _, _)
KeptWhileDeleting(listing, keywords, i) ==
    IF i > Len(listing) THEN listing
    ELSE IF JobMatches(listing[i], keywords)
         THEN KeptWhileDeleting(listing, keywords, i + 1)
         ELSE KeptWhileDeleting(SubSeq(listing, 1, i - 1) \o SubSeq(listing, i + 1, Len(listing)),
                                keywords, i + 1)

filter_jobs_by_location_Deleting(listing, where) ==
    IF Len(listing) = 0 THEN listing
    ELSE IF ~Contains(LowerStr(where), S_canada) /\ TooBroad(LowerStr(where)) THEN listing
    ELSE KeptWhileDeleting(listing, expected_keywords(LowerStr(where)), 1)

\* lines 219-268
filter_jobs_by_location(listing, where) ==
    IF Len(listing) = 0 THEN listing
    ELSE LET place_lower == LowerStr(where)
         IN  IF ~Contains(place_lower, S_canada) /\ TooBroad(place_lower) THEN listing
             ELSE SelectSeq(listing,
                            LAMBDA job : JobMatches(job, expected_keywords(place_lower)))

S_comma_space == <<",", " ">>

\* a record as extract_job_data makes it for a location "City, ST"
Listing(city, state, n) ==
    [Name |-> <<"Q", "A">>, Company |-> S_NA, State |-> state, City |-> city,
     Salary |-> S_NA, Location |-> city \o S_comma_space \o state, Currency |-> S_USD,
     Region |-> city \o S_comma_space \o state, YearsOfExperience |-> S_NA,
     Year |-> S_NA, Url |-> base_url \o S_job_listing \o Str(n)]

\* the records the filter is tried on, each as extract_job_data makes it; the
\* last has no location
Listings == {
    Listing(<<"T", "o", "r", "o", "n", "t", "o">>, <<"O", "N">>, 1),
    Listing(<<"Y", "o", "n", "k", "e", "r", "s">>, <<"N", "Y">>, 2),
    Listing(<<"N", "e", "w", " ", "Y", "o", "r", "k">>, <<"N", "Y">>, 3),
    Listing(<<"D", "a", "l", "l", "a", "s">>, <<"T", "X">>, 4),
    Listing(<<"B", "o", "s", "t", "o", "n">>, <<"M", "A">>, 5),
    Listing(<<"H", "o", "u", "s", "t", "o", "n">>, <<"T", "X">>, 6),
    [Listing(S_NA, S_NA, 7) EXCEPT !.Location = S_NA, !.Region = S_NA]}

\* the places the filter is tried on
Places == {
    <<"c", "a", "n", "a", "d", "a">>,
    <<"t", "o", "r", "o", "n", "t", "o", "-", "c", "a", "n", "a", "d", "a">>,
    <<"u", "s", "a">>,
    <<"n", "e", "w", "-", "y", "o", "r", "k", "-", "n", "y">>,
    <<"b", "o", "s", "t", "o", "n", "-", "m", "a">>,
    <<"h", "y", "d", "e", "r", "a", "b", "a", "d", "-", "i", "n", "d", "i", "a">>,
    <<"m", "u", "m", "b", "a", "i", "-", "i", "n", "d", "i", "a">>,
    <<"b", "a", "n", "g", "a", "l", "o", "r", "e", "-", "i", "n", "d", "i", "a">>,
    <<"h", "o", "u", "s", "t", "o", "n", "-", "t", "x">>,
    <<"s", "y", "d", "n", "e", "y", "-", "a", "u", "s", "t", "r", "a", "l", "i", "a">>,
    <<"d", "a", "l", "l", "a", "s", "-", "t", "x">>,
    <<"D", "a", "l", "l", "a", "s">>,
    <<>>}

(***************************************************************************)
(* SpecFilter: filter_jobs_by_location applied to a list run() returned,   *)
(* then to its own result.                                                 *)
(***************************************************************************)
InitFilter ==
    /\ pc = "returned"
    /\ browser = "closed"
    /\ page = <<>>
    /\ detail = DefaultDetail
    /\ total_found = 0
    /\ links = <<>>
    /\ batch_start = 0
    /\ tasks = <<>>
    /\ history = <<>>
    /\ launched = <<>>
    /\ job_listings \in UNION {[1..n -> Listings] : n \in 0..MaxRecords}
    /\ successful_jobs = Len(job_listings)
    /\ progress = <<>>
    /\ returned = job_listings
    /\ overtaken = FALSE
    /\ sleeps = 0
    /\ place \in Places
    /\ filtered = <<>>
    /\ DriverIdle

\* filter_jobs_by_location(job_listings, place)
FilterListings ==
    /\ filtered = <<>>
    /\ filtered' = <<filter_jobs_by_location(returned, place)>>
    /\ UNCHANGED <<pc, browser, page, detail, total_found, links, batch_start, tasks,
                   history, launched, job_listings, successful_jobs, progress, returned,
                   overtaken, sleeps, place, driverVars>>

\* filter_jobs_by_location applied to what its last call returned
FilterAgain ==
    /\ Len(filtered) >= 1
    /\ Len(filtered) < MaxPasses
    /\ filtered' = Append(filtered, filter_jobs_by_location(filtered[Len(filtered)], place))
    /\ UNCHANGED <<pc, browser, page, detail, total_found, links, batch_start, tasks,
                   history, launched, job_listings, successful_jobs, progress, returned,
                   overtaken, sleeps, place, driverVars>>

NextFilter ==
    \/ FilterListings
    \/ FilterAgain

SpecFilter == InitFilter /\ [][NextFilter]_vars

(***************************************************************************)
(* runner.py.  Line 36 of the file, "batch_size = 07", is not Python 3:    *)
(* the interpreter rejects the file when it compiles it, before any        *)
(* statement of it runs, so main() never reads a table nor calls parse().  *)
(***************************************************************************)
\* the rows of jobs.csv and of country.csv the driver is tried on
JobRows == {[job_title |-> <<"Q", "A">>], [job_title |-> <<" ">>], [job_title |-> <<>>]}
LocationRows == {
    [city |-> <<"P", "u", "n", "e">>, country |-> <<"I", "n", "d", "i", "a">>],
    [city |-> <<>>, country |-> <<"I", "n", "d", "i", "a">>],
    [city |-> <<"N", "e", "w", " ", "Y", "o", "r", "k">>, country |-> <<" ">>]}

InitRunner ==
    /\ pc = "launch"
    /\ browser = "none"
    /\ page = <<>>
    /\ detail = DefaultDetail
    /\ total_found = 0
    /\ links = <<>>
    /\ batch_start = 0
    /\ tasks = <<>>
    /\ history = <<>>
    /\ launched = <<>>
    /\ job_listings = <<>>
    /\ successful_jobs = 0
    /\ progress = <<>>
    /\ returned = <<>>
    /\ overtaken = FALSE
    /\ sleeps = 0
    /\ place = <<>>
    /\ filtered = <<>>
    /\ runner_pc = "compile"
    /\ jobs_csv \in UNION {[1..n -> JobRows] : n \in 0..MaxRows}
    /\ country_csv \in UNION {[1..n -> LocationRows] : n \in 0..MaxRows}
    /\ attempted = <<>>
    /\ executed = <<>>

\* python runner.py: the file does not compile (line 36), the process ends
\* with a SyntaxError
CompileRunner ==
    /\ runner_pc = "compile"
    /\ runner_pc' = "SyntaxError"
    /\ UNCHANGED <<pc, browser, page, detail, total_found, links, batch_start, tasks,
                   history, launched, job_listings, successful_jobs, progress, returned,
                   overtaken, sleeps, filterVars, jobs_csv, country_csv, attempted,
                   executed>>

NextRunner == CompileRunner

SpecRunner == InitRunner /\ [][NextRunner]_vars

(***************************************************************************)
(* SpecPlan: the link collector and the batch loop with a renderer that    *)
(* never fails, on results pages of 0, 12, 20 and MaxFound job cards.  The *)
(* first card of a page leads to the detail page, the others to an empty   *)
(* document.                                                               *)
(***************************************************************************)
\* a page of n different job cards, all but the first with an empty detail page
PlanPage(n) ==
    [i \in 1..n |->
        IF i = 1 THEN JobAnchor(1)
        ELSE [href |-> S_job_listing \o S_empty \o Str(i), cls |-> S_JobCard]]

PlanPages == {PlanPage(n) : n \in {0, 12, 20, MaxFound}}

InitPlan ==
    /\ pc = "collect"
    /\ browser = "open"
    /\ page \in PlanPages
    /\ detail = DefaultDetail
    /\ total_found = 0
    /\ links = <<>>
    /\ batch_start = 0
    /\ tasks = <<>>
    /\ history = <<>>
    /\ launched = <<>>
    /\ job_listings = <<>>
    /\ successful_jobs = 0
    /\ progress = <<>>
    /\ returned = <<>>
    /\ overtaken = FALSE
    /\ sleeps = 0
    /\ place = S_boston_ma
    /\ filtered = <<>>
    /\ DriverIdle

\* the steps of a run whose renderer calls all return
NextPlan ==
    \/ Collect
    \/ StartBatch
    \/ \E k \in 1..Len(tasks) : NewPage(k)
    \/ \E k \in 1..Len(tasks) : Goto(k)
    \/ \E k \in 1..Len(tasks) : WaitAfterGoto(k)
    \/ \E k \in 1..Len(tasks) : Content(k)
    \/ \E k \in 1..Len(tasks) : Close(k)
    \/ Join
    \/ Pace
    \/ Finish

SpecPlan == InitPlan /\ [][NextPlan]_vars

(***************************************************************************)
(* SpecCollect: the link collector and the batch loop with a renderer     *)
(* that never fails, on results pages of up to MaxAnchors anchors that the *)
(* selectors tell apart.                                                   *)
(***************************************************************************)
\* an anchor each for the 1st, 2nd, 3rd, 4th and 5th selector to find first,
\* and one that no selector finds
Anchors == {
    [href |-> <<"/", "j", "o", "b", "-", "l", "i", "s", "t", "i", "n", "g", "/", "a">>, cls |-> <<>>],
    [href |-> <<"/", "p", "a", "r", "t", "n", "e", "r", "/", "b">>, cls |-> S_JobCard \o <<"_", "x">>],
    [href |-> <<"h", "t", "t", "p", "s", ":", "/", "/", "w", "w", "w", ".", "g", "l", "a", "s", "s", "d", "o", "o", "r", ".", "c", "o", "m", "/", "j", "o", "b", "-", "l", "i", "s", "t", "i", "n", "g", "-", "c">>, cls |-> <<>>],
    [href |-> <<"/", "p", "a", "r", "t", "n", "e", "r", "/", "d">>, cls |-> S_JobCard_jobTitle],
    [href |-> <<"/", "p", "a", "r", "t", "n", "e", "r", "/", "e">>, cls |-> <<"x", " ">> \o S_jobTitle],
    [href |-> <<"/", "a", "b", "o", "u", "t">>, cls |-> <<"n", "a", "v">>]}

AnchorPages == UNION {[1..n -> Anchors] : n \in 0..MaxAnchors}

InitCollect ==
    /\ pc = "collect"
    /\ browser = "open"
    /\ page \in AnchorPages
    /\ detail = DefaultDetail
    /\ total_found = 0
    /\ links = <<>>
    /\ batch_start = 0
    /\ tasks = <<>>
    /\ history = <<>>
    /\ launched = <<>>
    /\ job_listings = <<>>
    /\ successful_jobs = 0
    /\ progress = <<>>
    /\ returned = <<>>
    /\ overtaken = FALSE
    /\ sleeps = 0
    /\ place = S_boston_ma
    /\ filtered = <<>>
    /\ DriverIdle

SpecCollect == InitCollect /\ [][NextPlan]_vars

(***************************************************************************)
(* SpecExtract: one job of one link that never fails, on detail pages      *)
(* whose job description is made of up to MaxWords words.                  *)
(***************************************************************************)
ExperienceWords == <<
    <<"3", "-", "5">>,
    <<"5">>,
    <<"U+2003", "y", "e", "a", "r", "s">>,
    <<"\r", "o", "f">>,
    <<" ", "e", "x", "p", "e", "r", "i", "e", "n", "c", "e">>,
    <<"a", "t", " ", "l", "e", "a", "s", "t", " ">>,
    <<" ", "r", "e", "q", "u", "i", "r", "e", "d">>>>

\* the words with the given indexes, one after the other
RECURSIVE TextOf(_)
TextOf(ws) == IF Len(ws) = 0 THEN <<>> ELSE ExperienceWords[Head(ws)] \o TextOf(Tail(ws))

Descriptions ==
    {TextOf(ws) : ws \in UNION {[1..m -> 1..Len(ExperienceWords)] : m \in 1..MaxWords}}

\* a detail page with the text in a paragraph of the job description block
DescriptionPage(text) ==
    <<[text |-> text,
       path |-> <<[tag |-> "div", cls |-> S_JobDetails_jobDescription \o <<"_", "_", "x">>],
                  [tag |-> "p", cls |-> <<>>]>>]>>

\* a detail page with the text in a paragraph outside any description block
BarePage(text) ==
    <<[text |-> text, path |-> <<[tag |-> "body", cls |-> <<>>], [tag |-> "p", cls |-> <<>>]>>]>>

InitExtract ==
    /\ pc = "loop"
    /\ browser = "open"
    /\ page = PlainPage(1)
    /\ detail \in {DescriptionPage(t) : t \in Descriptions} \cup {BarePage(t) : t \in Descriptions}
    /\ total_found = 1
    /\ links = TruncatedLinks(DiscoveredLinks(PlainPage(1)), 1)
    /\ batch_start = 0
    /\ tasks = <<>>
    /\ history = <<>>
    /\ launched = <<>>
    /\ job_listings = <<>>
    /\ successful_jobs = 0
    /\ progress = <<>>
    /\ returned = <<>>
    /\ overtaken = FALSE
    /\ sleeps = 0
    /\ place = S_boston_ma
    /\ filtered = <<>>
    /\ DriverIdle

NextExtract ==
    \/ StartBatch
    \/ \E k \in 1..Len(tasks) : NewPage(k)
    \/ \E k \in 1..Len(tasks) : Goto(k)
    \/ \E k \in 1..Len(tasks) : WaitAfterGoto(k)
    \/ \E k \in 1..Len(tasks) : Content(k)
    \/ \E k \in 1..Len(tasks) : Close(k)
    \/ Join
    \/ Pace
    \/ Finish

SpecExtract == InitExtract /\ [][NextExtract]_vars

(***************************************************************************)
(* SpecFields: one job of one link that never fails, on detail pages with  *)
(* a salary of up to MaxSalaryWords words, on detail pages of up to        *)
(* MaxNodes titles and paragraphs, and on detail pages with a location.    *)
(***************************************************************************)
SalaryWords == <<
    <<"$">>,
    <<"E", "U", "R">>,
    <<"C", "A", "D">>,
    <<"i", "n", "r">>,
    <<"9", "0", "K">>,
    <<"euro">>,
    <<"yen">>>>

\* the words with the given indexes, one after the other
RECURSIVE SalaryTextOf(_)
SalaryTextOf(ws) ==
    IF Len(ws) = 0 THEN <<>> ELSE SalaryWords[Head(ws)] \o SalaryTextOf(Tail(ws))

\* a detail page with a title and the text in a salary span
SalaryPage(text) ==
    <<[text |-> <<"Q", "A">>, path |-> <<[tag |-> "h1", cls |-> <<>>]>>],
      [text |-> text, path |-> <<[tag |-> "span", cls |-> S_salary]>>]>>

SalaryPages ==
    {SalaryPage(SalaryTextOf(ws)) :
        ws \in UNION {[1..m -> 1..Len(SalaryWords)] : m \in 1..MaxSalaryWords}}

\* the text nodes the title pages are made of: a title in the header block, a
\* title of class jobTitle, a bare title, a title in a block whose class only
\* starts as the header's does, and a paragraph
TitleNodes == {
    [text |-> <<"U+2003", "L", "e", "a", "d", "U+2003">>,
     path |-> <<[tag |-> "div", cls |-> S_Header], [tag |-> "h1", cls |-> <<>>]>>],
    [text |-> <<"D", "e", "v">>,
     path |-> <<[tag |-> "h1", cls |-> <<"x", " ">> \o S_jobTitle]>>],
    [text |-> <<"Q", "A", "\r">>, path |-> <<[tag |-> "h1", cls |-> <<>>]>>],
    [text |-> <<"O", "p", "s">>,
     path |-> <<[tag |-> "div", cls |-> S_Header \o <<" ", "x">>], [tag |-> "h1", cls |-> <<>>]>>],
    [text |-> <<"A", "b", "o", "u", "t">>, path |-> <<[tag |-> "p", cls |-> <<>>]>>]}

TitlePages == UNION {[1..n -> TitleNodes] : n \in 0..MaxNodes}

\* the location texts the location pages are made of
LocationTexts == {
    <<"Z", ",", "M", "A">>,
    <<"\f", "P", "u", "n", "e", ",", "\t", "I", "n", "d", "i", "a", "\r">>,
    <<"R", "e", "m", "o", "t", "e">>,
    <<"N", "/", "A">>,
    <<" ">>,
    <<"A", ",", "U+2009", "B", ",", "U+3000", "C", "U+001F">>,
    <<",">>}

\* a detail page with a title and the text in a location block
LocationPage(text) ==
    <<[text |-> <<"Q", "A">>, path |-> <<[tag |-> "h1", cls |-> <<>>]>>],
      [text |-> text, path |-> <<[tag |-> "div", cls |-> S_location]>>]>>

LocationPages == {LocationPage(t) : t \in LocationTexts}

InitFields ==
    /\ pc = "loop"
    /\ browser = "open"
    /\ page = PlainPage(1)
    /\ detail \in SalaryPages \cup TitlePages \cup LocationPages
    /\ total_found = 1
    /\ links = TruncatedLinks(DiscoveredLinks(PlainPage(1)), 1)
    /\ batch_start = 0
    /\ tasks = <<>>
    /\ history = <<>>
    /\ launched = <<>>
    /\ job_listings = <<>>
    /\ successful_jobs = 0
    /\ progress = <<>>
    /\ returned = <<>>
    /\ overtaken = FALSE
    /\ sleeps = 0
    /\ place = S_boston_ma
    /\ filtered = <<>>
    /\ DriverIdle

SpecFields == InitFields /\ [][NextExtract]_vars

(***************************************************************************)
(* Claims.                                                                 *)
(***************************************************************************)
\* every job created so far, in launch order
AllJobs == history \o tasks

\* the job's navigation succeeded within the attempts and its record was extracted
Succeeded(job) == job.gotos > job.failed /\ Len(job.data) = 1

RECURSIVE Flatten(_)
Flatten(batches) ==
    IF Len(batches) = 0 THEN <<>> ELSE Head(batches) \o Flatten(Tail(batches))

\* C1: no two records of the list run returns share a Url, and no link is
\* fetched by two jobs (stated as the claim states it; the code does not dedupe)
UniqueUrls ==
    /\ \A i, j \in 1..Len(returned) : i # j => returned[i].Url # returned[j].Url
    /\ \A i, j \in 1..Len(AllJobs) :
          (i # j /\ AllJobs[i].gotos > 0 /\ AllJobs[j].gotos > 0)
              => AllJobs[i].link # AllJobs[j].link

\* C2: the page a job opened is closed by the time the job settles, on every
\* outcome (stated as the claim states it; the code closes it on success only)
PageClosedWhenSettled ==
    \A k \in 1..Len(AllJobs) : AllJobs[k].pc = "done" => AllJobs[k].page # "open"

\* C3: a job whose navigation has failed on every attempt so far has not given
\* up before the 3rd attempt; once settled it has called goto exactly 3 times,
\* waited the backoff twice (between the attempts, not after the last) and
\* returned no record; no job calls goto more than 3 times (stated as the
\* claim states it; the code gives the job up when the backoff wait raises)
RetryExhaustion ==
    \A k \in 1..Len(AllJobs) :
        LET job == AllJobs[k]
        IN  /\ job.gotos <= 3
            /\ (job.gotos > 0 /\ job.failed = job.gotos) =>
                  /\ job.pc \in {"backoff", "goto", "done"}
                  /\ job.pc = "backoff" => job.gotos < 3 /\ job.backoffs = job.gotos - 1
                  /\ job.pc = "goto" => job.gotos < 3 /\ job.backoffs = job.gotos
                  /\ job.pc = "done" =>
                        /\ job.gotos = 3
                        /\ job.backoffs = 2
                        /\ job.result = "None"
                        /\ job.data = <<>>

\* C4: run never raises to its caller; when the browser or the context cannot
\* be created it returns an empty list (stated as the claim states it; launch
\* and new_context are called outside the try)
RunNeverRaises == pc # "raised"

\* C5: a failed job aborts neither its batch nor the later ones: run leaves the
\* try only with no job in flight, after the loop every link has had its job,
\* settled, which called goto unless it got no page, and when run has returned
\* the record of every job that succeeded is in the returned list (stated as
\* the claim states it; the code loses the record of a job whose page.close()
\* raises, and every record when browser.close() raises)
FailureIsolation ==
    /\ pc \in {"except", "raised", "returned"} => tasks = <<>>
    /\ pc = "returned" =>
          /\ Len(history) = Len(links)
          /\ \A i \in 1..Len(links) :
                /\ history[i].link = links[i]
                /\ history[i].pc = "done"
                /\ history[i].gotos >= 1 \/ history[i].page = "none"
                /\ Succeeded(history[i]) =>
                      \E r \in 1..Len(returned) : returned[r] = history[i].data[1]

\* C6: the batches cut off links are consecutive, of size 5 but for a last one
\* of 1 to 5, and one after the other they are the links handled so far, in
\* order; when the loop ends they are all the links, in ceil(n/5) batches
BatchesPartitionLinks ==
    LET n == Len(links)
        nb == Len(launched)
    IN  /\ \A b \in 1..nb :
              /\ Len(launched[b]) >= 1
              /\ Len(launched[b]) <= 5
              /\ b < nb => Len(launched[b]) = 5
        /\ Flatten(launched) = SubSeq(links, 1, Min(n, 5 * nb))
        /\ (pc = "loop" /\ batch_start >= n) =>
              /\ Flatten(launched) = links
              /\ 5 * nb >= n
              /\ 5 * nb < n + 5

\* 12 links have been cut into batches of 5, 5 and 2, and each batch fetched
BatchesPartitionWitness ==
    /\ pc = "loop"
    /\ batch_start >= Len(links)
    /\ Len(links) = 12
    /\ Len(history) = 12
    /\ Len(launched) = 3
    /\ Len(launched[1]) = 5
    /\ Len(launched[2]) = 5
    /\ Len(launched[3]) = 2

\* C7: the records are in the order of their links, whatever the order in which
\* the jobs finished: the r-th record is that of the r-th job that returned one,
\* and the list run returns is the list of these records (stated as the claim
\* states it; the code returns [] when browser.close() raises on line 202)
OutputInLinkOrder ==
    LET good == {i \in 1..Len(history) : history[i].result = "dict"}
        rank(i) == Cardinality({j \in good : j <= i})
    IN  /\ Len(job_listings) = Cardinality(good)
        /\ \A i \in good :
              /\ job_listings[rank(i)] = history[i].data[1]
              /\ job_listings[rank(i)].Url = links[i]
        /\ pc = "returned" => returned = job_listings

\* the fields of a JobRecord
JobRecordFields ==
    {"Name", "Company", "State", "City", "Salary", "Location", "Currency", "Region",
     "YearsOfExperience", "Year", "Url"}

\* C8: the aggregate holds one complete record for every job whose navigation
\* succeeded and whose record was extracted, and nothing for any other job:
\* for every link, as many records as jobs of that link that succeeded (stated
\* as the claim states it; the code drops the record when page.close() raises)
OneRecordPerSuccess ==
    /\ \A r \in 1..Len(job_listings) :
          /\ DOMAIN job_listings[r] = JobRecordFields
          /\ \E i \in 1..Len(history) :
                Succeeded(history[i]) /\ job_listings[r].Url = history[i].link
    /\ \A i \in 1..Len(history) :
          Cardinality({r \in 1..Len(job_listings) : job_listings[r].Url = history[i].link})
              = Cardinality({j \in 1..Len(history) :
                                history[j].link = history[i].link /\ Succeeded(history[j])})
    /\ Len(job_listings) = Cardinality({i \in 1..Len(history) : Succeeded(history[i])})

\* C9: the links handed to the batch loop are the first scrape_limit(found)
\* discovered links, in discovery order, where the limit is found below 20 and
\* min(60, found) from 20 on; they stay so while the batches are fetched, and
\* no job is given a link past the limit
ScrapeLimitApplied ==
    pc # "collect" =>
        /\ total_found = Len(page)
        /\ Len(links) = IF total_found < 20 THEN total_found
                        ELSE IF total_found < 60 THEN total_found ELSE 60
        /\ \A i \in 1..Len(links) : links[i] = base_url \o page[i].href
        /\ total_found = 0 => Len(links) = 0
        /\ total_found = 12 => Len(links) = 12
        /\ total_found = 20 => Len(links) = 20
        /\ total_found > 60 => Len(links) = 60
        /\ Len(AllJobs) <= Len(links)
        /\ \A k \in 1..Len(AllJobs) : AllJobs[k].link = links[k]

\* more than 60 links were found and 60 are kept; the run has returned after
\* fetching them in 12 batches
ScrapeLimitWitness ==
    /\ pc = "returned"
    /\ total_found > 60
    /\ Len(links) = 60
    /\ Len(launched) = 12
    /\ Len(history) = 60
    /\ Len(returned) = 1

\* the requirements text of the detail page, as lines 482-488 read it
RequirementsText == JoinSpace(TextsWhere(detail, IsText))

\* C10: a description "N-M years experience" that no pattern before the range
\* pattern matches gives "N-M years" (stated as the claim states it; the range
\* pattern has three groups, and the code tests for two)
ExperienceRangeReported ==
    \A r \in 1..Len(job_listings) :
        LET text == RequirementsText
            m == SearchExp(4, text, 1)
        IN  (/\ m.ok
             /\ ~SearchExp(1, text, 1).ok
             /\ ~SearchExp(2, text, 1).ok
             /\ ~SearchExp(3, text, 1).ok)
                => job_listings[r].YearsOfExperience
                      = m.groups[1].s \o <<"-">> \o m.groups[2].s \o S_years

\* the record is in the list
InListing(job, listing) == \E j \in 1..Len(listing) : listing[j] = job

\* C11: for place "canada" the filter keeps every record whose State is "ON"
\* and drops every record whose State is "NY", whatever its other fields hold
\* (stated as the claim states it; the keyword "on" is found inside "Yonkers")
CanadaKeepsOnDropsNy ==
    (place = S_canada /\ Len(filtered) >= 1) =>
        \A k \in 1..Len(returned) :
            /\ returned[k].State = <<"O", "N">> => InListing(returned[k], filtered[1])
            /\ returned[k].State = <<"N", "Y">> => ~InListing(returned[k], filtered[1])

\* C11, amended: for place "canada" the filter keeps every record whose State
\* is "ON"; it drops a record whose State is "NY" if and only if none of the
\* keywords of canada is a substring of its lower-cased Location, City or Region
CanadaKeepsOnAndKeywordHolders ==
    (place = S_canada /\ Len(filtered) >= 1) =>
        \A k \in 1..Len(returned) :
            /\ returned[k].State = <<"O", "N">> => InListing(returned[k], filtered[1])
            /\ returned[k].State = <<"N", "Y">> =>
                  (InListing(returned[k], filtered[1])
                      <=> \E w \in 1..Len(canada_keywords) :
                             \E f \in {"Location", "City", "Region"} :
                                Contains(LowerStr(returned[k][f]), canada_keywords[w]))

\* for place "canada" a record of State "NY" was kept and another was dropped
CanadaWitness ==
    /\ place = S_canada
    /\ Len(filtered) >= 1
    /\ \E j, k \in 1..Len(returned) :
          /\ returned[j].State = <<"N", "Y">>
          /\ returned[k].State = <<"N", "Y">>
          /\ InListing(returned[j], filtered[1])
          /\ ~InListing(returned[k], filtered[1])

\* sub is listing with some of its records left out
RECURSIVE IsSubsequence(_, _)
IsSubsequence(sub, listing) ==
    IF Len(sub) = 0 THEN TRUE
    ELSE IF Len(listing) = 0 THEN FALSE
    ELSE IF Head(sub) = Head(listing) THEN IsSubsequence(Tail(sub), Tail(listing))
    ELSE IsSubsequence(sub, Tail(listing))

\* C12: the filter is idempotent: a second pass, and every later one, returns
\* the list the first pass returned, whose records are records of the input,
\* unchanged and in the order of the input
FilterIdempotent ==
    /\ Len(filtered) >= 1 => IsSubsequence(filtered[1], returned)
    /\ \A k \in 2..Len(filtered) : filtered[k] = filtered[1]

\* a second pass has run on a list from which the first pass dropped a record
\* and kept another
FilterIdempotentWitness ==
    /\ Len(filtered) >= 2
    /\ Len(filtered[1]) >= 1
    /\ Len(filtered[1]) < Len(returned)

\* the hyphen-separated tokens of the place, in lower case
PlaceTokens == Split(LowerStr(place), <<"-">>)

\* a tabled country or city name is a token of the place ("new-york" is two)
TabledPlace ==
    \/ \E t \in 1..Len(PlaceTokens) :
          PlaceTokens[t] \in {S_canada, S_united_states, S_usa, S_us, S_ny, S_boston,
                              S_hyderabad, S_mumbai, S_bangalore}
    \/ \E t \in 1..(Len(PlaceTokens) - 1) :
          PlaceTokens[t] = <<"n", "e", "w">> /\ PlaceTokens[t + 1] = <<"y", "o", "r", "k">>

\* the token is in the lower-cased Location, City, State or Region of the record
HasToken(job, token) ==
    \E f \in {"Location", "City", "State", "Region"} : Contains(LowerStr(job[f]), token)

\* C20: for a place none of whose tokens is a tabled name, the filter keeps the
\* records that hold the first token of the place in one of the four fields,
\* and only those (stated as the claim states it; the code looks for "us" and
\* "ny" anywhere in the place, and finds "us" in "houston")
GenericPlaceUsesFirstToken ==
    (~TabledPlace /\ Len(filtered) >= 1) =>
        filtered[1] = SelectSeq(returned, LAMBDA job : HasToken(job, PlaceTokens[1]))

\* the pairs of a job title and a location with non-empty title, city and
\* country, job-major: <<title, city, country>>, stripped
ValidPairs ==
    LET titled == SelectSeq(jobs_csv, LAMBDA row : Strip(row.job_title) # <<>>)
        placed == SelectSeq(country_csv,
                            LAMBDA row : Strip(row.city) # <<>> /\ Strip(row.country) # <<>>)
    IN  [k \in 1..(Len(titled) * Len(placed)) |->
            <<Strip(titled[((k - 1) \div Len(placed)) + 1].job_title),
              Strip(placed[((k - 1) % Len(placed)) + 1].city),
              Strip(placed[((k - 1) % Len(placed)) + 1].country)>>]

\* the driver's process has ended
RunnerEnded == runner_pc \in {"done", "SyntaxError"}

\* C13: when the driver has ended it has attempted every valid pair, in
\* job-major order (stated as the claim states it; runner.py does not compile)
DriverAttemptsEveryPair == RunnerEnded => attempted = ValidPairs

\* C14: when the driver has ended the pipeline has been executed exactly once
\* for every valid pair (stated as the claim states it; runner.py does not
\* compile, and parse() takes none of the keywords it is called with)
DriverExecutesEachPairOnce ==
    RunnerEnded =>
        \A k \in 1..Len(ValidPairs) :
            Cardinality({e \in 1..Len(executed) : executed[e] = ValidPairs[k]})
                = Cardinality({j \in 1..Len(ValidPairs) : ValidPairs[j] = ValidPairs[k]})

\* the currency signs, in the order the code looks for them, and their codes
CurrencySigns == <<<<"$">>, <<"euro">>, <<"pound">>, <<"yen">>, <<"rupee">>>>
SignCodes == <<S_USD, S_EUR, S_GBP, S_JPY, S_INR>>

\* C15: the currency of a record is that of the first sign of the table its
\* Salary holds, whatever codes it holds too (so "$" with "EUR" gives "USD");
\* with no sign it is the first code its Salary holds, and with neither a sign
\* nor a code it is "USD"
CurrencyFirstMatchWins ==
    \A r \in 1..Len(job_listings) :
        LET salary == job_listings[r].Salary
            signs == {k \in 1..Len(CurrencySigns) : Contains(salary, CurrencySigns[k])}
            codes == {k \in 1..Len(currency_codes) :
                         Contains(UpperStr(salary), currency_codes[k])}
        IN  /\ signs # {} =>
                  job_listings[r].Currency
                      = SignCodes[CHOOSE k \in signs : \A j \in signs : k <= j]
            /\ (Contains(salary, <<"$">>) /\ Contains(salary, S_EUR)) =>
                  job_listings[r].Currency = S_USD
            /\ (signs = {} /\ Contains(UpperStr(salary), S_INR)) =>
                  job_listings[r].Currency = S_INR
            /\ (signs = {} /\ ~Contains(UpperStr(salary), S_INR) /\ codes # {}) =>
                  job_listings[r].Currency
                      = currency_codes[CHOOSE k \in codes : \A j \in codes : k <= j]
            /\ (signs = {} /\ ~Contains(UpperStr(salary), S_INR) /\ codes = {}) =>
                  job_listings[r].Currency = S_USD

\* a record whose Salary holds "$" and "EUR" has been returned, its currency "USD"
CurrencyWitness ==
    /\ pc = "returned"
    /\ \E r \in 1..Len(returned) :
          /\ Contains(returned[r].Salary, <<"$">>)
          /\ Contains(returned[r].Salary, S_EUR)
          /\ returned[r].Currency = S_USD

\* C16: the Name of a record is the stripped text of the first node of the
\* first of the 3 title selectors that matches anything: when only the 3rd
\* (any h1) matches it is that node's text and not "N/A", and it is "N/A" only
\* when no selector matches
NameFirstMatchWins ==
    \A r \in 1..Len(job_listings) :
        LET first == TextsWhere(detail, IsRole1)
            second == TextsWhere(detail, IsRole2)
            third == TextsWhere(detail, IsRole3)
            name == job_listings[r].Name
        IN  /\ first # <<>> => name = Strip(first[1])
            /\ (first = <<>> /\ second # <<>>) => name = Strip(second[1])
            /\ (first = <<>> /\ second = <<>> /\ third # <<>>) =>
                  name = Strip(third[1]) /\ name # S_NA
            /\ name = S_NA => (first = <<>> /\ second = <<>> /\ third = <<>>)
            /\ (first = <<>> /\ second = <<>> /\ third = <<>>) => name = S_NA

\* a record has been returned for a page on which only the 3rd selector matches,
\* after a paragraph
NameWitness ==
    /\ pc = "returned"
    /\ Len(returned) = 1
    /\ Len(detail) >= 2
    /\ ~IsRole3(detail[1])
    /\ TextsWhere(detail, IsRole1) = <<>>
    /\ TextsWhere(detail, IsRole2) = <<>>
    /\ TextsWhere(detail, IsRole3) # <<>>
    /\ returned[1].Name = Strip(TextsWhere(detail, IsRole3)[1])

\* the jobs that have been launched and have not settled
InFlight == {k \in 1..Len(AllJobs) : AllJobs[k].pc # "done"}

\* C17: the jobs in flight are jobs of the batch launched last, at most 5; the
\* jobs of the batches before it have all settled, and while a batch is in
\* flight one progress line has been printed and one pacing sleep has ended
\* for each batch before it
BatchBarrier ==
    /\ Cardinality(InFlight) <= 5
    /\ Len(tasks) <= 5
    /\ \A k \in 1..Len(history) : history[k].pc = "done"
    /\ \A k \in InFlight : 5 * (Len(launched) - 1) < AllJobs[k].idx
    /\ tasks # <<>> =>
          /\ Len(history) = 5 * (Len(launched) - 1)
          /\ Len(progress) = Len(launched) - 1
          /\ sleeps = Len(launched) - 1
          /\ \A k \in 1..Len(tasks) :
                /\ tasks[k].idx = Len(history) + k
                /\ tasks[k].link = links[Len(history) + k]

\* a job of the second batch is in flight, after a first batch of 5 in which
\* a job was dropped
BatchBarrierWitness ==
    /\ Len(launched) = 2
    /\ InFlight # {}
    /\ Len(history) = 5
    /\ \E k \in 1..Len(history) : history[k].result = "None"
    /\ sleeps = 1
    /\ Len(progress) = 1

\* the records of the jobs of the list that returned one, in the order of the list
RecordsOf(settled) ==
    LET kept == SelectSeq(settled, LAMBDA job : job.result = "dict")
    IN  [k \in 1..Len(kept) |-> kept[k].data[1]]

\* C18: job_listings and successful_jobs change only in a step in which every
\* job of the batch has settled and the batch is joined, and then by the
\* records of the batch, all at once and in the order of its jobs
AggregateOnlyAtJoin ==
    [][(job_listings' # job_listings \/ successful_jobs' # successful_jobs) =>
          /\ tasks # <<>>
          /\ \A k \in 1..Len(tasks) : tasks[k].pc = "done"
          /\ tasks' = <<>>
          /\ job_listings' = job_listings \o RecordsOf(tasks)
          /\ successful_jobs' = successful_jobs + Len(RecordsOf(tasks))]_vars

\* a job of the second batch has extracted its record and is still in flight,
\* and the aggregate holds the records of the first batch only
AggregateWitness ==
    /\ Len(launched) = 2
    /\ Len(job_listings) >= 1
    /\ job_listings = RecordsOf(history)
    /\ \E k \in 1..Len(tasks) :
          /\ tasks[k].pc = "close"
          /\ Len(tasks[k].data) = 1

\* C19: one progress line per joined batch; the k-th shows processed =
\* min(5k, total), the total, and the number of records the jobs of the first
\* k batches returned, and the last line shows the number of records
\* aggregated; 0 <= successful <= processed <= total, neither value decreases,
\* and once every batch is joined the last line shows processed = total and
\* total - successful is the number of jobs that returned no record
ProgressReports ==
    LET total == Len(links)
        last == Len(progress)
    IN  /\ last = Len(launched) - (IF tasks # <<>> THEN 1 ELSE 0)
        /\ \A k \in 1..last :
              /\ progress[k].total = total
              /\ progress[k].processed = (IF 5 * k <= total THEN 5 * k ELSE total)
              /\ progress[k].successful
                    = Cardinality({i \in 1..progress[k].processed :
                                      history[i].result = "dict"})
              /\ 0 <= progress[k].successful
              /\ progress[k].successful <= progress[k].processed
              /\ progress[k].processed <= total
              /\ k > 1 =>
                    /\ progress[k - 1].processed <= progress[k].processed
                    /\ progress[k - 1].successful <= progress[k].successful
        /\ last >= 1 =>
              /\ progress[last].successful = Len(job_listings)
              /\ progress[last].successful = successful_jobs
        /\ (last >= 1 /\ Len(history) = total) =>
              /\ progress[last].processed = total
              /\ total - progress[last].successful
                    = Cardinality({i \in 1..Len(history) : history[i].result = "None"})

\* run has returned after two progress lines, the second for a batch of one
\* job; a job lost its record when its page was closed, and browser.close()
\* raised so that run returned no record
ProgressWitness ==
    /\ pc = "returned"
    /\ Len(progress) = 2
    /\ progress[1].processed = 5
    /\ progress[2].processed = 6
    /\ progress[2].successful < 6
    /\ progress[2].successful >= 1
    /\ \E i \in 1..Len(history) :
          history[i].result = "None" /\ Len(history[i].data) = 1
    /\ returned = <<>>

\* C22: the Region of a record is its Location: it is "N/A" exactly when the
\* Location is, and then City and State are "N/A" too, so that the composite
\* of City and State is never written
RegionIsLocation ==
    \A r \in 1..Len(job_listings) :
        LET job == job_listings[r]
        IN  /\ job.Region = job.Location
            /\ job.Region = S_NA <=> job.Location = S_NA
            /\ job.Location = S_NA => (job.City = S_NA /\ job.State = S_NA)

\* a record with a city and a state has been returned
RegionWitness ==
    /\ pc = "returned"
    /\ \E r \in 1..Len(returned) :
          /\ Contains(returned[r].Location, <<",">>)
          /\ returned[r].City # S_NA
          /\ returned[r].State \notin {S_NA, <<>>}
          /\ returned[r].Region = returned[r].Location

\* what each of the 5 strategies finds on the results page, in priority order
StrategyLinks ==
    <<HrefsWhere(page, IsLink1), HrefsWhere(page, IsLink2), HrefsWhere(page, IsLink3),
      HrefsWhere(page, IsLink4), HrefsWhere(page, IsLink5)>>

\* C21: the links collected are those of the first strategy, in priority
\* order, that finds any, and of no other; there are none only if no strategy
\* finds any
FirstStrategyWins ==
    pc # "collect" =>
        LET hits == {k \in 1..5 : StrategyLinks[k] # <<>>}
        IN  IF hits = {} THEN total_found = 0 /\ links = <<>>
            ELSE LET first == CHOOSE k \in hits : \A j \in hits : k <= j
                     found == StrategyLinks[first]
                 IN  /\ total_found = Len(found)
                     /\ Len(links) = Len(found)
                     /\ Len(links) >= 1
                     /\ \A i \in 1..Len(links) :
                           links[i] = (IF StartsWith(found[i], S_http) THEN found[i]
                                       ELSE base_url \o found[i])

\* the links of the 2nd strategy have been collected on a page on which the
\* 1st finds none and the 5th finds a link the 2nd does not
FirstStrategyWitness ==
    /\ pc = "loop"
    /\ Len(launched) = 1
    /\ StrategyLinks[1] = <<>>
    /\ StrategyLinks[2] # <<>>
    /\ Len(links) = Len(StrategyLinks[2])
    /\ \E i \in 1..Len(StrategyLinks[5]) :
          \A j \in 1..Len(StrategyLinks[2]) : StrategyLinks[5][i] # StrategyLinks[2][j]

\* C23: once the links are collected run ends by returning its list; no job
\* calls goto more than 3 times, a run that returns has cut ceil(n/5) batches
\* off its n links, and a run without links starts no batch and no job and
\* returns the empty list (stated as the claim states it; run raises when
\* browser.close() raises on line 202 and again on line 215)
RunTerminates ==
    /\ [](\A k \in 1..Len(AllJobs) : AllJobs[k].gotos <= 3)
    /\ [](pc = "returned" =>
             /\ 5 * Len(launched) >= Len(links)
             /\ 5 * Len(launched) < Len(links) + 5)
    /\ []((pc \in {"loop", "gather", "sleep", "returned"} /\ Len(links) = 0) =>
             /\ launched = <<>>
             /\ AllJobs = <<>>
             /\ pc = "returned" => returned = <<>>)
    /\ (pc = "loop") ~> (pc = "returned" /\ browser = "closed" /\ tasks = <<>>)

====
